---------------------------- MODULE Spec2Model ----------------------------
(***************************************************************************)
(* A model of conduit_expose: the session tracker (session.go), container  *)
(* discovery (docker.go) and the polling engine (main.go: collectAll,      *)
(* pollLoop, StatusCache).                                                 *)
(*                                                                         *)
(* Several specifications share the variables; each one drives a part of   *)
(* the program and leaves the other parts' variables alone:                *)
(*   Spec        the SessionTracker, one action per method call (the       *)
(*               methods run wholly under s.mu)                            *)
(*   SpecLocked  the SessionTracker with the mutex and every assignment of *)
(*               a method as a step of its own, three concurrent callers   *)
(*   SpecDiscover  discoverContainers on every answer of the Docker daemon *)
(*   SpecCollect collectAll called again and again: discovery, the worker  *)
(*               goroutines behind the semaphore, the WaitGroup            *)
(*   FairCollect SpecCollect with the Go scheduler's fairness              *)
(*   SpecPoll    pollLoop: collectAll, StatusCache, the ticker, the        *)
(*               context and GET /status                                   *)
(***************************************************************************)
EXTENDS Integers, Sequences, FiniteSets, TLC

VARIABLES
    tracker,    \* the SessionTracker's fields
    lastCall,   \* history: the method call that produced this state
    seqPos,     \* history: how much of UploadSeq the Update calls have fed
    mu,         \* SessionTracker.mu: "free" or the thread holding it
    pc,         \* SpecLocked: each thread's position in its method
    frame,      \* SpecLocked: each thread's arguments / local variables
    committed,  \* history: the tracker as of the last Unlock
    docker,     \* the Docker daemon: what the two list queries answer
    hostname,   \* os.Hostname()
    discovered, \* SpecDiscover: what discoverContainers returned
    daemon,     \* the Docker daemon: each container's State
    drv,        \* the poll goroutine: its position in pollLoop / collectAll
    containers, \* collectAll: the containers discovered in this cycle
    results,    \* collectAll: the results array
    spawned,    \* collectAll: goroutines started by the range loop so far
    wg,         \* collectAll: the WaitGroup's counter
    sem,        \* collectAll: tokens in the semaphore channel
    wpc,        \* each worker goroutine's position
    winfo,      \* each worker goroutine's local info
    calls,      \* history: what each worker's calls answered
    returned,   \* what collectAll returned
    cache,      \* StatusCache.response
    tickerC,    \* pollLoop: the ticker's channel ("off" before NewTicker)
    ctxDone,    \* the context has been cancelled
    cycle,      \* history: collectAll calls started so far
    got,        \* history: what the last GET /status was answered
    conn,       \* collectContainerConnections: the tables it reads and its locals
    agg,        \* the merges: their arguments and their locals
    rate,       \* the rate engine: prevCPU, prevNet, prevNetTime and one sample
    prom,       \* the text metrics parsers: the body read and the fields parsed
    web,        \* the HTTP server: the secret, a request and its answer
    cmfile      \* the manager's state files: their bytes and what was read

sessVars == <<tracker, lastCall, seqPos>>
lockVars == <<mu, pc, frame, committed>>
discVars == <<docker, hostname, discovered>>
collectVars == <<containers, results, spawned, wg, sem, wpc, winfo, calls>>
pollVars == <<daemon, drv, returned, cache, tickerC, ctxDone, cycle, got>>
cycleVars == <<collectVars, pollVars>>
ioVars == <<prom, web, cmfile>>
sysVars == <<conn, agg, rate, ioVars>>
vars == <<tracker, lastCall, seqPos, mu, pc, frame, committed,
          docker, hostname, discovered, collectVars, pollVars, sysVars>>

(***************************************************************************)
(* Bounds of the model.                                                    *)
(***************************************************************************)
MaxConn == 1         \* largest connected-client count fed to the tracker
MaxByteExp == 2      \* cumulative upload counters are 50, 100, .., 50*2^MaxByteExp
MaxDownSteps == 1    \* cumulative download counters are 0, 50, .., 50*MaxDownSteps
MaxTime == 2         \* the wall clock reads MaxTime (Unix seconds)
MaxUptime == 1       \* uptimeSeconds is 0..MaxUptime
MaxSamples == 3      \* Update is not called once sampleCount reached this
MaxContainers == 2   \* containers known to the Docker daemon
IDLen == 2           \* length of a container ID
MaxWorkers == 1      \* cfg.MaxWorkers, the semaphore's capacity
MaxCycles == 2       \* pollLoop stops taking ticks after this many cycles

\* time.Time{} (the zero time, before every Unix time): cmStartTime.IsZero()
ZeroTime == -1

ConnValues == (0 - 1) .. MaxConn
UploadValues == {50 * (2 ^ k) : k \in 0 .. MaxByteExp}
DownloadValues == {50 * k : k \in 0 .. MaxDownSteps}
NowValues == {MaxTime}
UptimeValues == 0 .. MaxUptime
CMPeakValues == 0 .. MaxConn
CMStartValues == {ZeroTime} \cup (1 .. MaxTime)

\* The upload sequence of the specification's test property.
UploadSeq == <<100, 200, 50>>

Max(a, b) == IF a > b THEN a ELSE b

(***************************************************************************)
(* SessionTracker                                                          *)
(***************************************************************************)
NewSessionTracker(now) ==
    [startTime |-> now, peakConns |-> 0, sampleCount |-> 0, connSum |-> 0,
     lastUpload |-> 0, lastDownload |-> 0]

\* Update, line 36: the counter-reset test.
CounterReset(s, totalUpload, totalDownload) ==
    totalUpload < s.lastUpload \/ totalDownload < s.lastDownload

\* A reset that watches the upload counter only.
UpdateDetectResetUploadOnly(s, totalUpload, totalDownload) ==
    IF totalUpload < s.lastUpload
    THEN [s EXCEPT !.peakConns = 0, !.sampleCount = 0, !.connSum = 0]
    ELSE s

\* Update, lines 36-40.
UpdateDetectReset(s, totalUpload, totalDownload) ==
    IF CounterReset(s, totalUpload, totalDownload)
    THEN [s EXCEPT !.peakConns = 0, !.sampleCount = 0, !.connSum = 0]
    ELSE s

\* Update, lines 43-45.
UpdateStartTime(s, uptimeSeconds, now) ==
    IF uptimeSeconds > 0
    THEN [s EXCEPT !.startTime = now - uptimeSeconds]
    ELSE s

\* The peak as the latest sample instead of the maximum.
UpdatePeakAssign(s, totalConnected) == [s EXCEPT !.peakConns = totalConnected]

\* Update, lines 47-49.
UpdatePeak(s, totalConnected) ==
    IF totalConnected > s.peakConns
    THEN [s EXCEPT !.peakConns = totalConnected]
    ELSE s

\* A sample that is not counted.
UpdateSampleCountSkipped(s) == s

\* Update, line 51.
UpdateSampleCount(s) == [s EXCEPT !.sampleCount = @ + 1]

\* Update, line 52.
UpdateConnSum(s, totalConnected) == [s EXCEPT !.connSum = @ + totalConnected]

\* Update, line 53.
UpdateLastUpload(s, totalUpload) == [s EXCEPT !.lastUpload = totalUpload]

\* Update, line 54.
UpdateLastDownload(s, totalDownload) == [s EXCEPT !.lastDownload = totalDownload]

\* The whole of Update, in the order of its statements.
UpdateResult(s, totalConnected, totalUpload, totalDownload, uptimeSeconds, now) ==
    UpdateLastDownload(
      UpdateLastUpload(
        UpdateConnSum(
          UpdateSampleCount(
            UpdatePeak(
              UpdateStartTime(
                UpdateDetectReset(s, totalUpload, totalDownload),
                uptimeSeconds, now),
              totalConnected)),
          totalConnected),
        totalUpload),
      totalDownload)

\* The external peak taken outright.
CMPeakAssign(s, cmPeak) == [s EXCEPT !.peakConns = cmPeak]

\* UpdateFromCM, lines 64-66.
CMPeak(s, cmPeak) ==
    IF cmPeak > s.peakConns THEN [s EXCEPT !.peakConns = cmPeak] ELSE s

\* UpdateFromCM, lines 69-71.
CMStartTime(s, cmStartTime) ==
    IF cmStartTime # ZeroTime THEN [s EXCEPT !.startTime = cmStartTime] ELSE s

UpdateFromCMResult(s, cmPeak, cmStartTime) ==
    CMStartTime(CMPeak(s, cmPeak), cmStartTime)

\* Snapshot, lines 79-82: avg as the exact fraction num/den (float64 division).
SnapshotAvg(s) ==
    IF s.sampleCount > 0
    THEN [num |-> s.connSum, den |-> s.sampleCount]
    ELSE [num |-> 0, den |-> 1]

\* Snapshot, lines 84-90: the SessionInfo returned.
SnapshotResult(s) ==
    [StartTime |-> s.startTime,
     PeakConnections |-> s.peakConns,
     AvgConnections |-> SnapshotAvg(s),
     TotalUploadBytes |-> s.lastUpload,
     TotalDownloadBytes |-> s.lastDownload]

\* History only: the position in UploadSeq after an Update call.  k >= 0 says
\* that the Update calls since construction fed exactly the first k uploads
\* of UploadSeq and none of them lowered the download counter.
NextSeqPos(s, pos, totalUpload, totalDownload) ==
    IF /\ pos >= 0
       /\ pos < Len(UploadSeq)
       /\ totalUpload = UploadSeq[pos + 1]
       /\ totalDownload >= s.lastDownload
    THEN pos + 1
    ELSE 0 - 1

NoCall == [op |-> "NewSessionTracker"]

NoFrame == [op |-> "none"]

(***************************************************************************)
(* Docker discovery.  A string is a sequence of characters; the names are  *)
(* spelled with "/" and a few longer tokens.                               *)
(***************************************************************************)
HasPrefix(str, prefix) ==
    /\ Len(prefix) <= Len(str)
    /\ SubSeq(str, 1, Len(prefix)) = prefix

TrimPrefix(str, prefix) ==
    IF HasPrefix(str, prefix) THEN SubSeq(str, Len(prefix) + 1, Len(str))
                              ELSE str

\* The i-th container ID: i written in binary with the letters a and b.
ContainerID(i) ==
    [j \in 1 .. IDLen |-> IF (i \div (2 ^ (j - 1))) % 2 = 0 THEN "a" ELSE "b"]

ContainerIDs == {ContainerID(i) : i \in 0 .. MaxContainers - 1}

\* Names a container may carry: none, "/conduit", "/conduit-expose",
\* "/conduit-expose-2".
NameLists ==
    {<<>>, << <<"/", "conduit">> >>, << <<"/", "conduit-expose">> >>,
     << <<"/", "conduit-expose", "-2">> >>}

\* Hostnames: empty, any prefix of a container ID (Docker sets the hostname
\* to the first characters of the ID), or a name that is no such prefix.
Hostnames ==
    {SubSeq(id, 1, n) : id \in ContainerIDs, n \in 0 .. IDLen} \cup {<<"h">>}

\* The containers in the order in which the daemon lists them.
ListOf(ids, names, state) ==
    LET F[i \in 0 .. MaxContainers] ==
          IF i = 0 THEN <<>>
          ELSE IF ContainerID(i - 1) \in ids
               THEN Append(F[i - 1],
                           [ID |-> ContainerID(i - 1),
                            Names |-> names[ContainerID(i - 1)],
                            State |-> state[ContainerID(i - 1)],
                            Created |-> 0])
               ELSE F[i - 1]
    IN F[MaxContainers]

\* discoverContainers, lines 641-643 and 654-656: seen[c.ID] = c.
SeenAfter(seen, list) ==
    LET F[i \in 0 .. Len(list)] ==
          IF i = 0 THEN seen
          ELSE [id \in DOMAIN F[i - 1] \cup {list[i].ID} |->
                  IF id = list[i].ID THEN list[i] ELSE F[i - 1][id]]
    IN F[Len(list)]

\* containerName, lines 678-683.
containerName(c) ==
    IF Len(c.Names) > 0 THEN TrimPrefix(c.Names[1], <<"/">>) ELSE <<>>

\* discoverContainers without the self-filter.
IsSelfNever(c, host) == FALSE

\* discoverContainers, lines 664-671: the two tests that skip a container.
IsSelf(c, host) ==
    \/ host # <<>> /\ HasPrefix(c.ID, host)
    \/ containerName(c) = <<"conduit-expose">>

\* The sequences that list every element of S once: the orders in which
\* `for _, c := range seen` may visit a map.
Orderings(S) ==
    {q \in [1 .. Cardinality(S) -> S] : \A x \in S : \E i \in DOMAIN q : q[i] = x}

\* discoverContainers: what it may return, given the answers (or errors) of
\* the two ContainerList calls and the hostname.
discoverContainers(byImage, byName, host) ==
    IF byImage.err
    THEN {[err |-> "listing containers by image", containers |-> <<>>]}
    ELSE IF byName.err
    THEN {[err |-> "listing containers by name", containers |-> <<>>]}
    ELSE LET seen == SeenAfter(SeenAfter(<<>>, byImage.list), byName.list)
             kept == {seen[id] : id \in {x \in DOMAIN seen : ~IsSelf(seen[x], host)}}
         IN  {[err |-> "nil", containers |-> q] : q \in Orderings(kept)}

\* An answer of ContainerList.
ListAnswers(names, state) ==
    {[err |-> TRUE, list |-> <<>>]}
    \cup {[err |-> FALSE, list |-> ListOf(ids, names, state)] :
             ids \in SUBSET ContainerIDs}

NotDiscovered == [err |-> "pending", containers |-> <<>>]

SessionIdle ==
    /\ tracker = NewSessionTracker(MaxTime)
    /\ lastCall = NoCall
    /\ seqPos = 0
    /\ committed = tracker

DockerIdle ==
    /\ docker = [byImage |-> [err |-> TRUE, list |-> <<>>],
                 byName |-> [err |-> TRUE, list |-> <<>>]]
    /\ hostname = <<>>
    /\ discovered = NotDiscovered

(***************************************************************************)
(* The polling engine: collectContainerStats, collectAll, pollLoop.        *)
(***************************************************************************)
\* A nil pointer (*AppMetrics, *StatusResponse).
Nil == [nil |-> TRUE]

\* ctr.ID[:12], at the scale of IDLen: the ID without its last character.
ShortID(id) == SubSeq(id, 1, IDLen - 1)

\* The zero ContainerInfo, as make([]ContainerInfo, n) fills the array.
ZeroInfo ==
    [ID |-> <<>>, Name |-> <<>>, Status |-> "", CPUPercent |-> 0,
     MemoryMB |-> 0, Uptime |-> <<>>, AppMetrics |-> Nil]

\* What the calls of one worker may answer.  ContainerStats: "err" is a
\* failed request or an undecodable body, "ok" carries the CPU percentage and
\* the memory in MB that lines 341-355 compute from the body.
StatsOK == [err |-> FALSE, cpu |-> 5, mem |-> 7]

StatsErr == [err |-> TRUE]

\* The AppMetrics parsePrometheusMetrics builds from a 200 response.
SomeMetrics == [Connections |-> 1, TrafficIn |-> 10, TrafficOut |-> 20]

NoCalls == [stats |-> "none", ip |-> "none", metrics |-> "none"]

\* A target reported in the state the runtime gave, whatever it is.
collectContainerStatsKeepState(ctr, now, answer) ==
    [ID |-> ShortID(ctr.ID),
     Name |-> IF Len(ctr.Names) > 0 THEN TrimPrefix(ctr.Names[1], <<"/">>)
                                    ELSE <<>>,
     Status |-> ctr.State, CPUPercent |-> 0, MemoryMB |-> 0,
     Uptime |-> <<0, "s">>, AppMetrics |-> Nil]

\* collectContainerStats, lines 299-358; `answer` is what ContainerStats and
\* the decoding of its body gave (not asked for when ctr is not running).
collectContainerStats(ctr, now, answer) ==
    LET name == IF Len(ctr.Names) > 0 THEN TrimPrefix(ctr.Names[1], <<"/">>)
                                      ELSE <<>>
        info == [ID |-> ShortID(ctr.ID), Name |-> name, Status |-> ctr.State,
                 CPUPercent |-> 0, MemoryMB |-> 0, Uptime |-> <<0, "s">>,
                 AppMetrics |-> Nil]
    IN  IF ctr.State # "running"
        THEN [info EXCEPT !.Status = "down"]
        ELSE LET up == [info EXCEPT !.Uptime = <<now - ctr.Created, "s">>] IN
             IF answer.err
             THEN [up EXCEPT !.Status = "unhealthy"]
             ELSE [up EXCEPT !.CPUPercent = answer.cpu, !.MemoryMB = answer.mem]

\* A response that still announces a container after a failed discovery.
EmptyResponseOneSlot(host, now, c) ==
    [ServerID |-> host, Timestamp |-> now, TotalContainers |-> 1,
     Containers |-> <<ZeroInfo>>, cycle |-> c, failed |-> TRUE]

\* collectAll, lines 390-395: the response after a failed discovery (cycle
\* and failed are history, not fields of the program).
EmptyResponse(host, now, c) ==
    [ServerID |-> host, Timestamp |-> now, TotalContainers |-> 0,
     Containers |-> <<>>, cycle |-> c, failed |-> TRUE]

\* collectAll, lines 431-436.
FullResponse(host, now, res, c) ==
    [ServerID |-> host, Timestamp |-> now, TotalContainers |-> Len(res),
     Containers |-> res, cycle |-> c, failed |-> FALSE]

\* The names and states of the daemon's containers in a cycle.
CycleNames == [id \in ContainerIDs |-> << <<"/", "conduit">> >>]

\* The IDs of a list are in the daemon's order.
Ascending(list) ==
    \A i, j \in DOMAIN list :
        i < j => \E a, b \in 0 .. MaxContainers - 1 :
                    a < b /\ list[i].ID = ContainerID(a) /\ list[j].ID = ContainerID(b)

CollectIdle ==
    /\ containers = <<>>
    /\ results = <<>>
    /\ spawned = 0
    /\ wg = 0
    /\ sem = 0
    /\ wpc = <<>>
    /\ winfo = <<>>
    /\ calls = <<>>

PollIdle ==
    /\ daemon = [id \in ContainerIDs |-> "exited"]
    /\ drv = "stopped"
    /\ returned = Nil
    /\ cache = Nil
    /\ tickerC = "off"
    /\ ctxDone = FALSE
    /\ cycle = 0
    /\ got = [code |-> 0, cycle |-> 0]

CycleIdle == CollectIdle /\ PollIdle

\* The cycles run on a host whose name is no prefix of a container ID.
CycleDocker ==
    /\ docker = [byImage |-> [err |-> TRUE, list |-> <<>>],
                 byName |-> [err |-> TRUE, list |-> <<>>]]
    /\ hostname = <<"h">>
    /\ discovered = NotDiscovered

\* No table is being read, nothing is being merged, no sample is taken.
ConnIdle == [pc |-> "idle"]

AggIdle == [pc |-> "idle"]

RateIdle == [pc |-> "idle"]

PromIdle == [pc |-> "idle"]

WebIdle == [pc |-> "idle"]

FileIdle == [pc |-> "idle"]

IoIdle ==
    /\ prom = PromIdle
    /\ web = WebIdle
    /\ cmfile = FileIdle

SysIdle ==
    /\ conn = ConnIdle
    /\ agg = AggIdle
    /\ rate = RateIdle
    /\ IoIdle

LockIdle ==
    /\ mu = "free"
    /\ pc = [t \in {"updater", "manager", "reader"} |-> "idle"]
    /\ frame = [t \in {"updater", "manager", "reader"} |-> NoFrame]

(***************************************************************************)
(* Spec: one action per method call.                                       *)
(***************************************************************************)
Init ==
    /\ SysIdle
    /\ \E now \in NowValues : tracker = NewSessionTracker(now)
    /\ lastCall = NoCall
    /\ seqPos = 0
    /\ LockIdle
    /\ committed = tracker
    /\ DockerIdle
    /\ CycleIdle

Update(totalConnected, totalUpload, totalDownload, uptimeSeconds, now) ==
    /\ tracker.sampleCount < MaxSamples
    /\ tracker' = UpdateResult(tracker, totalConnected, totalUpload,
                               totalDownload, uptimeSeconds, now)
    /\ lastCall' = [op |-> "Update", totalConnected |-> totalConnected,
                    totalUpload |-> totalUpload, totalDownload |-> totalDownload,
                    uptimeSeconds |-> uptimeSeconds, now |-> now,
                    peakBefore |-> tracker.peakConns,
                    startBefore |-> tracker.startTime]
    /\ seqPos' = NextSeqPos(tracker, seqPos, totalUpload, totalDownload)
    /\ UNCHANGED <<lockVars, discVars, sysVars, cycleVars>>

UpdateFromCM(cmPeak, cmStartTime) ==
    /\ tracker' = UpdateFromCMResult(tracker, cmPeak, cmStartTime)
    /\ lastCall' = [op |-> "UpdateFromCM", cmPeak |-> cmPeak,
                    cmStartTime |-> cmStartTime,
                    peakBefore |-> tracker.peakConns,
                    startBefore |-> tracker.startTime]
    /\ UNCHANGED <<seqPos, lockVars, discVars, sysVars, cycleVars>>

Snapshot ==
    /\ lastCall' = [op |-> "Snapshot", ret |-> SnapshotResult(tracker)]
    /\ UNCHANGED <<tracker, seqPos, lockVars, discVars, sysVars, cycleVars>>

DoUpdate ==
    \E c \in ConnValues, u \in UploadValues, d \in DownloadValues,
       up \in UptimeValues, now \in NowValues : Update(c, u, d, up, now)

DoUpdateFromCM ==
    \E p \in CMPeakValues, t \in CMStartValues : UpdateFromCM(p, t)

Next == DoUpdate \/ DoUpdateFromCM \/ Snapshot

Spec == Init /\ [][Next]_vars

(***************************************************************************)
(* SpecLocked: the same methods with s.mu and one step per statement.      *)
(* Three callers run concurrently: "updater" calls Update, "manager" calls *)
(* UpdateFromCM, "reader" calls Snapshot.  A call draws its arguments when *)
(* it acquires the mutex.                                                  *)
(***************************************************************************)
Threads == {"updater", "manager", "reader"}

\* A mutex that lets every caller in.
MuNeverHeld == TRUE

\* s.mu.Lock() returns only when no one holds the mutex.
MuFree == mu = "free"

Lock(t, first, f) ==
    /\ pc[t] = "idle"
    /\ MuFree
    /\ mu' = t
    /\ pc' = [pc EXCEPT ![t] = first]
    /\ frame' = [frame EXCEPT ![t] = f]

\* One statement of a method: from position `from` to position `to`.
Step(t, from, to, s) ==
    /\ pc[t] = from
    /\ tracker' = s
    /\ pc' = [pc EXCEPT ![t] = to]
    /\ UNCHANGED <<mu, frame, committed, lastCall, seqPos, discVars, sysVars, cycleVars>>

\* defer s.mu.Unlock(), and the return.
Unlock(t) ==
    /\ pc[t] = "unlock"
    /\ mu' = "free"
    /\ pc' = [pc EXCEPT ![t] = "idle"]
    /\ frame' = [frame EXCEPT ![t] = NoFrame]
    /\ committed' = tracker
    /\ UNCHANGED <<tracker, lastCall, seqPos, discVars, sysVars, cycleVars>>

UpdateLock ==
    /\ tracker.sampleCount < MaxSamples
    /\ \E c \in ConnValues, u \in UploadValues, d \in DownloadValues,
          up \in UptimeValues, now \in NowValues :
          Lock("updater", "reset",
               [op |-> "Update", totalConnected |-> c, totalUpload |-> u,
                totalDownload |-> d, uptimeSeconds |-> up, now |-> now])
    /\ UNCHANGED <<tracker, committed, lastCall, seqPos, discVars, sysVars, cycleVars>>

UpdateSteps ==
    LET a == frame["updater"] IN
    \/ Step("updater", "reset", "start",
            UpdateDetectReset(tracker, a.totalUpload, a.totalDownload))
    \/ Step("updater", "start", "peak",
            UpdateStartTime(tracker, a.uptimeSeconds, a.now))
    \/ Step("updater", "peak", "count", UpdatePeak(tracker, a.totalConnected))
    \/ Step("updater", "count", "sum", UpdateSampleCount(tracker))
    \/ Step("updater", "sum", "lastUpload",
            UpdateConnSum(tracker, a.totalConnected))
    \/ Step("updater", "lastUpload", "lastDownload",
            UpdateLastUpload(tracker, a.totalUpload))
    \/ Step("updater", "lastDownload", "unlock",
            UpdateLastDownload(tracker, a.totalDownload))

UpdateFromCMLock ==
    /\ \E p \in CMPeakValues, t \in CMStartValues :
          Lock("manager", "peak",
               [op |-> "UpdateFromCM", cmPeak |-> p, cmStartTime |-> t])
    /\ UNCHANGED <<tracker, committed, lastCall, seqPos, discVars, sysVars, cycleVars>>

UpdateFromCMSteps ==
    LET a == frame["manager"] IN
    \/ Step("manager", "peak", "start", CMPeak(tracker, a.cmPeak))
    \/ Step("manager", "start", "unlock", CMStartTime(tracker, a.cmStartTime))

SnapshotLock ==
    /\ Lock("reader", "avg", [op |-> "Snapshot"])
    /\ UNCHANGED <<tracker, committed, lastCall, seqPos, discVars, sysVars, cycleVars>>

\* Snapshot, lines 79-82: the average into the local avg.
SnapshotReadAvg ==
    /\ pc["reader"] = "avg"
    /\ pc' = [pc EXCEPT !["reader"] = "build"]
    /\ frame' = [frame EXCEPT !["reader"] =
                    [op |-> "Snapshot", avg |-> SnapshotAvg(tracker)]]
    /\ UNCHANGED <<tracker, mu, committed, lastCall, seqPos, discVars, sysVars, cycleVars>>

\* Snapshot, lines 84-90: the SessionInfo, with the avg computed before.
SnapshotBuild ==
    /\ pc["reader"] = "build"
    /\ pc' = [pc EXCEPT !["reader"] = "unlock"]
    /\ frame' = [frame EXCEPT !["reader"] =
                    [op |-> "Snapshot",
                     ret |-> [SnapshotResult(tracker) EXCEPT
                                !.AvgConnections = frame["reader"].avg]]]
    /\ UNCHANGED <<tracker, mu, committed, lastCall, seqPos, discVars, sysVars, cycleVars>>

UnlockAny == \E t \in Threads : Unlock(t)

NextLocked ==
    \/ UpdateLock \/ UpdateSteps
    \/ UpdateFromCMLock \/ UpdateFromCMSteps
    \/ SnapshotLock \/ SnapshotReadAvg \/ SnapshotBuild
    \/ UnlockAny

SpecLocked == Init /\ [][NextLocked]_vars

(***************************************************************************)
(* SpecDiscover: discoverContainers against every state of the daemon.     *)
(***************************************************************************)
InitDiscover ==
    /\ SysIdle
    /\ SessionIdle
    /\ LockIdle
    /\ \E names \in [ContainerIDs -> NameLists] :
         LET state == [id \in ContainerIDs |-> "running"] IN
         \E i \in ListAnswers(names, state), n \in ListAnswers(names, state) :
             docker = [byImage |-> i, byName |-> n]
    /\ hostname \in Hostnames
    /\ discovered = NotDiscovered
    /\ CycleIdle

Discover ==
    /\ discovered = NotDiscovered
    /\ discovered' \in discoverContainers(docker.byImage, docker.byName, hostname)
    /\ UNCHANGED <<sessVars, lockVars, docker, hostname, sysVars, cycleVars>>

SpecDiscover == InitDiscover /\ [][Discover]_vars

(***************************************************************************)
(* collectAll and its worker goroutines.                                   *)
(***************************************************************************)
Workers == DOMAIN wpc

\* What the ContainerList calls answer in a cycle.
CycleAnswers ==
    IF ctxDone THEN {[err |-> TRUE, list |-> <<>>]}
               ELSE ListAnswers(CycleNames, daemon)

\* collectAll, lines 385-400: discovery; on an error the empty response, else
\* the results array, the WaitGroup and the semaphore.  `orders` is the set
\* of map iteration orders the scheduler under study lets happen.
CollectAllDiscover(orders) ==
    /\ drv = "collect"
    /\ \E byImage \in CycleAnswers, byName \in CycleAnswers :
       \E d \in discoverContainers(byImage, byName, hostname) :
          /\ d.containers \in orders
          /\ discovered' = d
          /\ IF d.err # "nil"
             THEN /\ returned' = EmptyResponse(hostname, MaxTime, cycle)
                  /\ drv' = "set"
                  /\ containers' = <<>>
                  /\ results' = <<>>
                  /\ winfo' = <<>>
                  /\ calls' = <<>>
                  /\ wpc' = <<>>
                  /\ spawned' = 0
                  /\ wg' = 0
                  /\ sem' = 0
             ELSE /\ containers' = d.containers
                  /\ results' = [i \in DOMAIN d.containers |-> ZeroInfo]
                  /\ winfo' = [i \in DOMAIN d.containers |-> ZeroInfo]
                  /\ calls' = [i \in DOMAIN d.containers |-> NoCalls]
                  /\ wpc' = [i \in DOMAIN d.containers |-> "none"]
                  /\ spawned' = 0
                  /\ wg' = 0
                  /\ sem' = 0
                  /\ drv' = IF Len(d.containers) = 0 THEN "wait" ELSE "spawn"
                  /\ returned' = Nil
    /\ UNCHANGED <<daemon, cache, tickerC, ctxDone, cycle, got>>
    /\ UNCHANGED <<sessVars, lockVars, docker, hostname, sysVars>>

\* collectAll, lines 402-404: wg.Add(1) and the go statement, for one target.
Spawn ==
    /\ drv = "spawn"
    /\ spawned < Len(containers)
    /\ wg' = wg + 1
    /\ wpc' = [wpc EXCEPT ![spawned + 1] = "acquire"]
    /\ spawned' = spawned + 1
    /\ drv' = IF spawned + 1 = Len(containers) THEN "wait" ELSE "spawn"
    /\ UNCHANGED <<containers, results, sem, winfo, calls, returned>>
    /\ UNCHANGED <<daemon, cache, tickerC, ctxDone, cycle, got>>
    /\ UNCHANGED <<sessVars, lockVars, discVars, sysVars>>

\* A semaphore that never fills.
SemAlwaysRoom == TRUE

\* sem <- struct{}{} proceeds only while the channel has room.
SemHasRoom == sem < MaxWorkers

\* What is left alone by a step of a worker that touches only its own state.
WorkerFrame ==
    /\ UNCHANGED <<containers, spawned, returned, drv>>
    /\ UNCHANGED <<daemon, cache, tickerC, ctxDone, cycle, got>>
    /\ UNCHANGED <<sessVars, lockVars, discVars, sysVars>>

\* Line 406.
WAcquire(i) ==
    /\ i \in Workers
    /\ wpc[i] = "acquire"
    /\ SemHasRoom
    /\ sem' = sem + 1
    /\ wpc' = [wpc EXCEPT ![i] = "stats"]
    /\ UNCHANGED <<results, wg, winfo, calls>>
    /\ WorkerFrame

\* The answers ContainerStats may give: an error only, once ctx is cancelled.
StatsAnswers == IF ctxDone THEN {StatsErr} ELSE {StatsErr, StatsOK}

\* Lines 409-412: collectContainerStats, then the test of info.Status.
WStats(i) ==
    /\ i \in Workers
    /\ wpc[i] = "stats"
    /\ \E answer \in StatsAnswers :
         LET info == collectContainerStats(containers[i], MaxTime, answer) IN
         /\ winfo' = [winfo EXCEPT ![i] = info]
         /\ calls' = [calls EXCEPT ![i].stats =
                        IF containers[i].State # "running" THEN "none"
                        ELSE IF answer.err THEN "err" ELSE "ok"]
         /\ wpc' = [wpc EXCEPT ![i] =
                      IF info.Status = "running" THEN "inspect" ELSE "store"]
    /\ UNCHANGED <<results, wg, sem>>
    /\ WorkerFrame

\* Lines 413-416: getContainerIP; "err" is a failed inspect or no address.
WInspect(i) ==
    /\ i \in Workers
    /\ wpc[i] = "inspect"
    /\ \E answer \in (IF ctxDone THEN {"err"} ELSE {"err", "ok"}) :
         /\ calls' = [calls EXCEPT ![i].ip = answer]
         /\ wpc' = [wpc EXCEPT ![i] = IF answer = "err" THEN "store" ELSE "fetch"]
    /\ UNCHANGED <<results, wg, sem, winfo>>
    /\ WorkerFrame

\* A worker that gives its result up when the metrics are unavailable.
InfoAfterFetchDropOnError(info, answer) ==
    IF answer = "err" THEN ZeroInfo ELSE [info EXCEPT !.AppMetrics = SomeMetrics]

\* Lines 417-422: info.AppMetrics is set only when fetchAppMetrics succeeds.
InfoAfterFetch(info, answer) ==
    IF answer = "err" THEN info ELSE [info EXCEPT !.AppMetrics = SomeMetrics]

\* Lines 417-422: fetchAppMetrics; "err" is a transport error, a timeout or a
\* status other than 200.  The request does not take ctx.
WFetch(i) ==
    /\ i \in Workers
    /\ wpc[i] = "fetch"
    /\ \E answer \in {"err", "ok"} :
         /\ calls' = [calls EXCEPT ![i].metrics = answer]
         /\ winfo' = [winfo EXCEPT ![i] = InfoAfterFetch(winfo[i], answer)]
    /\ wpc' = [wpc EXCEPT ![i] = "store"]
    /\ UNCHANGED <<results, wg, sem>>
    /\ WorkerFrame

\* Every worker writing the first slot.
ResultsAfterStoreFirst(res, idx, info) == [res EXCEPT ![1] = info]

\* Line 426: results[idx] = info.
ResultsAfterStore(res, idx, info) == [res EXCEPT ![idx] = info]

WStore(i) ==
    /\ i \in Workers
    /\ wpc[i] = "store"
    /\ results' = ResultsAfterStore(results, i, winfo[i])
    /\ wpc' = [wpc EXCEPT ![i] = "release"]
    /\ UNCHANGED <<wg, sem, winfo, calls>>
    /\ WorkerFrame

\* A worker that keeps its token.
SemKept == sem

\* Line 407, deferred: <-sem takes one token out.
SemReleased == sem - 1

WRelease(i) ==
    /\ i \in Workers
    /\ wpc[i] = "release"
    /\ sem' = SemReleased
    /\ wpc' = [wpc EXCEPT ![i] = "wgdone"]
    /\ UNCHANGED <<results, wg, winfo, calls>>
    /\ WorkerFrame

\* Line 405, deferred: wg.Done().
WDone(i) ==
    /\ i \in Workers
    /\ wpc[i] = "wgdone"
    /\ wg' = wg - 1
    /\ wpc' = [wpc EXCEPT ![i] = "exit"]
    /\ UNCHANGED <<results, sem, winfo, calls>>
    /\ WorkerFrame

\* A Wait that returns at once.
WaitGroupIgnored == TRUE

\* wg.Wait() returns when the counter is zero.
WaitGroupZero == wg = 0

\* Lines 429-436: wg.Wait(), then the response.
Wait ==
    /\ drv = "wait"
    /\ WaitGroupZero
    /\ returned' = FullResponse(hostname, MaxTime, results, cycle)
    /\ drv' = "set"
    /\ UNCHANGED collectVars
    /\ UNCHANGED <<daemon, cache, tickerC, ctxDone, cycle, got>>
    /\ UNCHANGED <<sessVars, lockVars, discVars, sysVars>>

\* collectAll has returned: its local variables are gone.
CollectReturned ==
    /\ containers' = <<>>
    /\ results' = <<>>
    /\ winfo' = <<>>
    /\ calls' = <<>>
    /\ wpc' = <<>>
    /\ spawned' = 0
    /\ wg' = 0
    /\ sem' = 0
    /\ discovered' = NotDiscovered

\* The caller of SpecCollect drops the response and calls collectAll again.
CollectAgain ==
    /\ drv = "set"
    /\ drv' = "collect"
    /\ returned' = Nil
    /\ CollectReturned
    /\ UNCHANGED <<daemon, cache, tickerC, ctxDone, cycle, got>>
    /\ UNCHANGED <<sessVars, lockVars, docker, hostname, sysVars>>

AllOrders == Seq([ID : ContainerIDs, Names : NameLists,
                  State : {"running", "exited"}, Created : {0}])

CollectAllAnyOrder == CollectAllDiscover(AllOrders)

\* SpecPoll follows the cycles in which the map is visited in ID order.
CollectAllInOrder == CollectAllDiscover({q \in AllOrders : Ascending(q)})

Acquire == \E i \in Workers : WAcquire(i)
Stats == \E i \in Workers : WStats(i)
Inspect == \E i \in Workers : WInspect(i)
Fetch == \E i \in Workers : WFetch(i)
Store == \E i \in Workers : WStore(i)
Release == \E i \in Workers : WRelease(i)
Done == \E i \in Workers : WDone(i)

WorkerStep ==
    Acquire \/ Stats \/ Inspect \/ Fetch \/ Store \/ Release \/ Done

InitCollect ==
    /\ SysIdle
    /\ SessionIdle
    /\ LockIdle
    /\ CycleDocker
    /\ CollectIdle
    /\ daemon \in [ContainerIDs -> {"running", "exited"}]
    /\ drv = "collect"
    /\ returned = Nil
    /\ cache = Nil
    /\ tickerC = "off"
    /\ ctxDone = FALSE
    /\ cycle = 1
    /\ got = [code |-> 0, cycle |-> 0]

NextCollect ==
    \/ CollectAllAnyOrder \/ Spawn
    \/ Acquire \/ Stats \/ Inspect \/ Fetch \/ Store \/ Release \/ Done
    \/ Wait \/ CollectAgain

SpecCollect == InitCollect /\ [][NextCollect]_vars

\* FairCollect: the Go scheduler runs every goroutine that can take a step,
\* and every call of a worker returns.
FairCollect ==
    /\ SpecCollect
    /\ WF_vars(CollectAllAnyOrder) /\ WF_vars(Spawn) /\ WF_vars(Wait)
    /\ \A i \in 1 .. MaxContainers :
         /\ WF_vars(WAcquire(i)) /\ WF_vars(WStats(i)) /\ WF_vars(WInspect(i))
         /\ WF_vars(WFetch(i)) /\ WF_vars(WStore(i)) /\ WF_vars(WRelease(i))
         /\ WF_vars(WDone(i))

(***************************************************************************)
(* pollLoop, StatusCache and the /status handler.                          *)
(***************************************************************************)
PollFrame ==
    /\ UNCHANGED collectVars
    /\ UNCHANGED <<sessVars, lockVars, discVars, sysVars>>

\* pollLoop, lines 442 and 451: cache.Set(collectAll(...)); after the first
\* one, line 445 creates the ticker.
CacheSet ==
    /\ drv = "set"
    /\ cache' = returned
    /\ returned' = Nil
    /\ tickerC' = IF tickerC = "off" THEN "empty" ELSE tickerC
    /\ drv' = "select"
    /\ CollectReturned
    /\ UNCHANGED <<daemon, ctxDone, cycle, got>>
    /\ UNCHANGED <<sessVars, lockVars, docker, hostname, sysVars>>

\* The ticker puts a tick into its channel, which holds one.
TickFire ==
    /\ tickerC = "empty"
    /\ tickerC' = "full"
    /\ UNCHANGED <<daemon, drv, returned, cache, ctxDone, cycle, got>>
    /\ PollFrame

\* A cycle started at the select whether or not a tick is in the channel.
SelectTickUnasked ==
    /\ drv = "select"
    /\ tickerC # "off"
    /\ cycle < MaxCycles
    /\ tickerC' = "empty"
    /\ cycle' = cycle + 1
    /\ drv' = "collect"
    /\ UNCHANGED <<daemon, returned, cache, ctxDone, got>>
    /\ PollFrame

\* pollLoop, lines 450-451: case <-ticker.C.
SelectTick ==
    /\ drv = "select"
    /\ tickerC = "full"
    /\ cycle < MaxCycles
    /\ tickerC' = "empty"
    /\ cycle' = cycle + 1
    /\ drv' = "collect"
    /\ UNCHANGED <<daemon, returned, cache, ctxDone, got>>
    /\ PollFrame

\* pollLoop, lines 452-453: case <-ctx.Done(), and the deferred ticker.Stop().
SelectDone ==
    /\ drv = "select"
    /\ ctxDone
    /\ drv' = "stopped"
    /\ tickerC' = "off"
    /\ UNCHANGED <<daemon, returned, cache, ctxDone, cycle, got>>
    /\ PollFrame

\* main, line 558: cancel().
Cancel ==
    /\ ~ctxDone
    /\ ctxDone' = TRUE
    /\ UNCHANGED <<daemon, drv, returned, cache, tickerC, cycle, got>>
    /\ PollFrame

\* StatusCache.Get, lines 92-96.
CacheGet == cache

\* statusHandler, lines 477-489: 503 while the cache is empty, else the
\* cached response.
StatusGet ==
    /\ got' = IF CacheGet = Nil THEN [code |-> 503, cycle |-> 0]
                                ELSE [code |-> 200, cycle |-> CacheGet.cycle]
    /\ UNCHANGED <<daemon, drv, returned, cache, tickerC, ctxDone, cycle>>
    /\ PollFrame

InitPoll ==
    /\ SysIdle
    /\ SessionIdle
    /\ LockIdle
    /\ CycleDocker
    /\ CollectIdle
    /\ daemon = [id \in ContainerIDs |->
                   IF id[1] = "a" THEN "running" ELSE "exited"]
    /\ drv = "collect"
    /\ returned = Nil
    /\ cache = Nil
    /\ tickerC = "off"
    /\ ctxDone = FALSE
    /\ cycle = 1
    /\ got = [code |-> 0, cycle |-> 0]

NextPoll ==
    \/ CollectAllInOrder \/ Spawn
    \/ Acquire \/ Stats \/ Inspect \/ Fetch \/ Store \/ Release \/ Done
    \/ Wait \/ CacheSet \/ TickFire \/ SelectTick \/ SelectDone \/ Cancel
    \/ StatusGet

SpecPoll == InitPoll /\ [][NextPoll]_vars

(***************************************************************************)
(* Claims about the SessionTracker, checked under Spec.                    *)
(***************************************************************************)

\* What an Update call that sees a lower upload or download counter leaves.
UpdateAfterRegression(a) ==
    /\ tracker'.sampleCount = 1
    /\ tracker'.connSum = a.totalConnected
    /\ tracker'.peakConns = Max(0, a.totalConnected)

\* What an Update call that sees no lower counter leaves.
UpdateWithoutRegression(a) ==
    /\ tracker'.sampleCount = tracker.sampleCount + 1
    /\ tracker'.connSum = tracker.connSum + a.totalConnected
    /\ tracker'.peakConns = Max(tracker.peakConns, a.totalConnected)

UpdateStepOK ==
    lastCall'.op = "Update" =>
        LET a == lastCall'
            regressed == \/ a.totalUpload < tracker.lastUpload
                         \/ a.totalDownload < tracker.lastDownload
        IN  /\ tracker'.lastUpload = a.totalUpload
            /\ tracker'.lastDownload = a.totalDownload
            /\ IF regressed THEN UpdateAfterRegression(a)
                             ELSE UpdateWithoutRegression(a)

\* Feeding the uploads 100, 200, 50: two samples counted, then the reset.
UploadSeqOK ==
    /\ seqPos = 1 => tracker.sampleCount = 1 /\ tracker.lastUpload = 100
    /\ seqPos = 2 => tracker.sampleCount = 2 /\ tracker.lastUpload = 200
    /\ seqPos = 3 => tracker.sampleCount = 1 /\ tracker.lastUpload = 50

\* C1: an Update call whose upload or download counter is lower than the
\* recorded one resets peak, sample count and connection sum before the
\* sample is applied (afterwards sampleCount = 1, connSum = totalConnected,
\* peak = max(0, totalConnected)); the call's counters become the baseline;
\* a call with no regression never resets.  For the uploads 100, 200, 50 the
\* reset happens exactly at the third sample and the baseline is then 50.
C1_ResetOnRegression == [][UpdateStepOK]_vars /\ []UploadSeqOK

\* The third sample of 100, 200, 50 has been applied, by a call that reset.
C1_Witness ==
    /\ seqPos = 3
    /\ lastCall.op = "Update"
    /\ lastCall.totalUpload = 50
    /\ tracker.sampleCount = 1

\* C2: the peak never decreases from one state to the next, except in an
\* Update call that detects a counter regression.
C2_PeakMonotone ==
    [][tracker'.peakConns < tracker.peakConns =>
         /\ lastCall'.op = "Update"
         /\ \/ lastCall'.totalUpload < tracker.lastUpload
            \/ lastCall'.totalDownload < tracker.lastDownload]_vars

\* An Update call has lowered the peak.
C2_Witness ==
    /\ lastCall.op = "Update"
    /\ tracker.peakConns < lastCall.peakBefore

\* C3: UpdateFromCM(cmPeak, cmStart) leaves peak = max(peak, cmPeak), never
\* lower; the start time becomes cmStart exactly when cmStart is not the zero
\* time; sampleCount, connSum, lastUpload and lastDownload are unchanged;
\* UpdateFromCM(0, zero time) changes nothing.
C3_UpdateFromCMFrame ==
    [][lastCall'.op = "UpdateFromCM" =>
         LET a == lastCall' IN
         /\ tracker'.peakConns = Max(tracker.peakConns, a.cmPeak)
         /\ tracker'.peakConns >= tracker.peakConns
         /\ tracker'.startTime =
              (IF a.cmStartTime # ZeroTime THEN a.cmStartTime
                                           ELSE tracker.startTime)
         /\ tracker'.sampleCount = tracker.sampleCount
         /\ tracker'.connSum = tracker.connSum
         /\ tracker'.lastUpload = tracker.lastUpload
         /\ tracker'.lastDownload = tracker.lastDownload
         /\ (a.cmPeak = 0 /\ a.cmStartTime = ZeroTime => tracker' = tracker)]_vars

\* UpdateFromCM has replaced a start time that Update derived from the
\* uptime, and kept a peak that was above the external one.
C3_Witness ==
    /\ lastCall.op = "UpdateFromCM"
    /\ lastCall.cmStartTime # ZeroTime
    /\ lastCall.startBefore # lastCall.cmStartTime
    /\ tracker.startTime = lastCall.cmStartTime
    /\ lastCall.cmPeak < lastCall.peakBefore
    /\ tracker.peakConns = lastCall.peakBefore
    /\ tracker.sampleCount > 0

(***************************************************************************)
(* Claims about Snapshot, checked under SpecLocked.                        *)
(***************************************************************************)

\* The SessionInfo `ret` is the one of the tracker state c: its fields are
\* c's, and its average is connSum / sampleCount, or 0 without any sample.
SnapshotOfState(ret, c) ==
    /\ ret.StartTime = c.startTime
    /\ ret.PeakConnections = c.peakConns
    /\ ret.TotalUploadBytes = c.lastUpload
    /\ ret.TotalDownloadBytes = c.lastDownload
    /\ ret.AvgConnections.den # 0
    /\ IF c.sampleCount > 0
       THEN ret.AvgConnections.num * c.sampleCount
              = c.connSum * ret.AvgConnections.den
       ELSE ret.AvgConnections.num = 0

\* What Snapshot is about to return describes the tracker as the last
\* completed Update / UpdateFromCM (or the constructor) left it.
SnapshotReturnsCommitted ==
    pc["reader"] = "unlock" => SnapshotOfState(frame["reader"].ret, committed)

\* A step of Snapshot changes no field of the tracker.
SnapshotReadOnly == pc'["reader"] # pc["reader"] => tracker' = tracker

\* C4: Snapshot returns AvgConnections = connSum / sampleCount when
\* sampleCount > 0 and exactly 0 when no sample has been taken; it leaves
\* every field of the tracker unchanged; and, running under the lock of
\* Update / UpdateFromCM, it never reports a half-applied Update.
C4_SnapshotConsistent == []SnapshotReturnsCommitted /\ [][SnapshotReadOnly]_vars

\* Snapshot is returning an average that is not a whole number, taken
\* while the other two callers wait for the mutex.
C4_Witness ==
    /\ pc["reader"] = "unlock"
    /\ tracker.sampleCount = 2
    /\ frame["reader"].ret.AvgConnections = [num |-> 1, den |-> 2]
    /\ pc["updater"] = "idle"

(***************************************************************************)
(* Claims about discovery, checked under SpecDiscover.                     *)
(***************************************************************************)

\* The container is the agent: its ID starts with the non-empty hostname, or
\* its name is exactly conduit-expose (Docker spells it /conduit-expose).
IsAgent(c) ==
    \/ hostname # <<>> /\ Len(hostname) <= Len(c.ID)
                       /\ \A i \in 1 .. Len(hostname) : c.ID[i] = hostname[i]
    \/ c.Names # <<>> /\ c.Names[1] = <<"/", "conduit-expose">>

ListedContainers ==
    {docker.byImage.list[i] : i \in DOMAIN docker.byImage.list}
    \cup {docker.byName.list[i] : i \in DOMAIN docker.byName.list}

InFlight ==
    {i \in Workers : wpc[i] \in {"stats", "inspect", "fetch", "store", "release"}}

\* C5: at every moment of a cycle the number of workers between acquiring
\* and releasing the semaphore is at most MaxWorkers, whatever the number of
\* targets.
C5_WorkersBounded ==
    /\ Cardinality(InFlight) <= MaxWorkers
    /\ sem = Cardinality(InFlight)

\* MaxWorkers workers hold the semaphore while a further one waits for it.
C5_Witness ==
    /\ Cardinality(InFlight) = MaxWorkers
    /\ \E i \in Workers : wpc[i] = "acquire"
    /\ Len(containers) > MaxWorkers

\* The first name of the container without its leading slash.
SlotName(ctr) ==
    IF ctr.Names[1][1] = "/" THEN Tail(ctr.Names[1]) ELSE ctr.Names[1]

\* The slot of a target in the response, given what its own calls answered.
SlotExpected(ctr, c) ==
    [ID |-> SubSeq(ctr.ID, 1, IDLen - 1),
     Name |-> SlotName(ctr),
     Status |-> IF ctr.State # "running" THEN "down"
                ELSE IF c.stats = "err" THEN "unhealthy" ELSE "running",
     CPUPercent |-> IF c.stats = "ok" THEN 5 ELSE 0,
     MemoryMB |-> IF c.stats = "ok" THEN 7 ELSE 0,
     Uptime |-> IF ctr.State = "running" THEN <<MaxTime - ctr.Created, "s">>
                                         ELSE <<0, "s">>,
     AppMetrics |-> IF c.ip = "ok" /\ c.metrics = "ok" THEN SomeMetrics ELSE Nil]

\* The target is running, its stats were read, and its address or its
\* metrics could not be.
MetricsFailed(ctr, c) ==
    /\ ctr.State = "running"
    /\ c.stats = "ok"
    /\ c.ip = "err" \/ c.metrics = "err"

\* C7: a running target whose inspect / IP lookup or metrics fetch fails is
\* still in the cycle's output, with app_metrics null and with id, name,
\* status, CPU, memory and uptime filled in; the failure does not abort the
\* cycle (the response has a slot for every target) and every other target's
\* slot is what that target's own calls make it.
C7_MetricsFailureIsolated ==
    drv = "set" /\ ~returned.failed =>
        /\ returned.TotalContainers = Len(containers)
        /\ Len(returned.Containers) = Len(containers)
        /\ \A i \in DOMAIN containers :
             /\ returned.Containers[i] = SlotExpected(containers[i], calls[i])
             /\ MetricsFailed(containers[i], calls[i]) =>
                  LET slot == returned.Containers[i] IN
                  /\ slot.AppMetrics = Nil
                  /\ slot.ID # <<>>
                  /\ slot.Name = <<"conduit">>
                  /\ slot.Status = "running"
                  /\ slot.CPUPercent = 5
                  /\ slot.MemoryMB = 7
                  /\ slot.Uptime = <<MaxTime, "s">>

\* A cycle has returned two running targets: the metrics of one could not be
\* fetched, the other one carries its metrics.
C7_Witness ==
    /\ drv = "set"
    /\ ~returned.failed
    /\ \E i, j \in DOMAIN containers :
         /\ i # j
         /\ calls[i].stats = "ok" /\ calls[i].metrics = "err"
         /\ returned.Containers[i].AppMetrics = Nil
         /\ returned.Containers[i].Status = "running"
         /\ returned.Containers[j].AppMetrics = SomeMetrics

(***************************************************************************)
(* The termination of a cycle, checked under FairCollect.                  *)
(***************************************************************************)

\* C10: every collection cycle eventually completes and returns one
\* snapshot: every worker that waits for the semaphore gets it and ends, and
\* collectAll, once called, returns; for any number of targets, more than
\* MaxWorkers included, provided each per-target call returns.
C10_CycleCompletes ==
    /\ (drv = "collect") ~> (drv = "set" /\ returned # Nil)
    /\ \A i \in 1 .. MaxContainers :
         (i \in Workers /\ wpc[i] = "acquire") ~> (i \in Workers /\ wpc[i] = "exit")

\* A cycle over more targets than MaxWorkers has returned its snapshot.
C10_Witness ==
    /\ drv = "set"
    /\ returned # Nil
    /\ ~returned.failed
    /\ returned.TotalContainers > MaxWorkers
    /\ \A i \in Workers : wpc[i] = "exit"

(***************************************************************************)
(* Claims about the poll loop and the cache, checked under SpecPoll.       *)
(***************************************************************************)

\* The response has a filled slot for each container it counts.
Complete(r) ==
    /\ r.TotalContainers = Len(r.Containers)
    /\ \A i \in DOMAIN r.Containers :
         /\ r.Containers[i].Status \in {"running", "down", "unhealthy"}
         /\ r.Containers[i].ID # <<>>

\* The cache is empty only before the first cycle is published; otherwise it
\* holds the complete response of a cycle that has returned.
CachePublished ==
    IF cache = Nil
    THEN cycle = 1 /\ drv \notin {"select", "stopped"}
    ELSE /\ Complete(cache)
         /\ cache.cycle <= cycle
         /\ cache.cycle = cycle => drv \in {"select", "stopped"} /\ Workers = {}

\* Only Set writes the cache, with what collectAll returned, and it never
\* puts back an older response or nil.
CacheMonotone ==
    /\ cache' # cache => drv = "set" /\ cache' = returned
    /\ cache # Nil => cache' # Nil /\ cache'.cycle >= cache.cycle

\* A reader gets 503 while the cache is empty, else the response published
\* last; what it gets is never older than what it got before.
GetStep ==
    /\ got' # got =>
         IF cache = Nil THEN got'.code = 503
                        ELSE got'.code = 200 /\ got'.cycle = cache.cycle
    /\ got'.cycle >= got.cycle
    /\ got.code = 200 => got'.code = 200

\* C6: Get returns either nil (before the first cycle) or a complete
\* snapshot produced by a finished cycle, never one under construction;
\* after a Set has completed, every later Get returns that snapshot or a
\* newer one.
C6_CacheCompleteSnapshots ==
    []CachePublished /\ [][CacheMonotone /\ GetStep]_vars

\* A reader has got the snapshot of the first cycle while the workers of the
\* second cycle fill their slots.
C6_Witness ==
    /\ got = [code |-> 200, cycle |-> 1]
    /\ cycle = 2
    /\ cache # Nil
    /\ cache.cycle = 1
    /\ cache.TotalContainers > 0
    /\ \E i \in Workers : wpc[i] = "store" /\ results[i] = ZeroInfo

\* The discovery of the cycle that has just returned.
DiscoveryFailed == drv = "set" /\ discovered.err \notin {"nil", "pending"}

DiscoveryFoundTargets ==
    drv = "set" /\ discovered.err = "nil" /\ discovered.containers # <<>>

\* A failed discovery gives the empty snapshot and starts no worker; a
\* discovery that finds targets gives one slot per target.
EmptyOnlyOnFailure ==
    /\ DiscoveryFailed =>
         /\ returned.TotalContainers = 0
         /\ returned.Containers = <<>>
         /\ Workers = {} /\ spawned = 0 /\ wg = 0 /\ sem = 0
    /\ DiscoveryFoundTargets =>
         /\ returned.TotalContainers = Len(discovered.containers)
         /\ returned.Containers # <<>>
    /\ drv = "stopped" => ctxDone

\* The loop goes on after a cycle, failed or not: the response is published,
\* and the next tick starts a discovery.
LoopGoesOn ==
    /\ drv = "collect" /\ discovered'.err \notin {"nil", "pending"} => drv' = "set"
    /\ drv = "set" /\ drv' # drv => drv' = "select" /\ cache' = returned
    /\ drv = "select" /\ cycle' # cycle => drv' = "collect" /\ discovered' = NotDiscovered
    /\ drv = "select" /\ drv' # drv /\ ~ctxDone => drv' = "collect"

\* C8: when discovery fails, the cycle returns a snapshot with
\* total_containers = 0 and an empty list, no worker is started, the process
\* keeps running and the next tick performs discovery again; a cycle whose
\* discovery found targets never yields an empty snapshot.
C8_DiscoveryFailureEmptySnapshot ==
    []EmptyOnlyOnFailure /\ [][LoopGoesOn]_vars

\* The first cycle failed to discover and published the empty snapshot; the
\* cycle of the next tick has discovered again and found targets.
C8_Witness ==
    /\ cycle = 2
    /\ cache # Nil
    /\ cache.failed
    /\ cache.cycle = 1
    /\ cache.TotalContainers = 0
    /\ DiscoveryFoundTargets
    /\ returned.TotalContainers > 0

(***************************************************************************)
(* The connection table decoder: parseHexAddr, parseProcNetTCP and         *)
(* collectContainerConnections.  A string is a sequence of one-character   *)
(* strings, a byte a number in 0 .. 255, a net.IP a sequence of bytes.     *)
(***************************************************************************)
MaxRows == 2         \* data rows of a /proc/<pid>/net/tcp file
MaxRows6 == 1        \* data rows of a /proc/<pid>/net/tcp6 file

HexDigits == <<"0", "1", "2", "3", "4", "5", "6", "7", "8", "9",
               "A", "B", "C", "D", "E", "F">>

LowerHexDigits == <<"0", "1", "2", "3", "4", "5", "6", "7", "8", "9",
                    "a", "b", "c", "d", "e", "f">>

\* encoding/hex fromHexChar: the value of a digit of either case, -1 for
\* any other character.
FromHexChar(c) ==
    IF \E v \in 1 .. 16 : HexDigits[v] = c
    THEN (CHOOSE v \in 1 .. 16 : HexDigits[v] = c) - 1
    ELSE IF \E v \in 1 .. 16 : LowerHexDigits[v] = c
         THEN (CHOOSE v \in 1 .. 16 : LowerHexDigits[v] = c) - 1
         ELSE 0 - 1

\* hex.DecodeString: an error for an odd length or a character that is no
\* hex digit, else one byte per two digits, the first digit the high one.
HexDecodeString(str) ==
    IF Len(str) % 2 = 1 \/ \E i \in 1 .. Len(str) : FromHexChar(str[i]) < 0
    THEN [err |-> TRUE, bytes |-> <<>>]
    ELSE [err |-> FALSE,
          bytes |-> [i \in 1 .. (Len(str) \div 2) |->
                       16 * FromHexChar(str[2 * i - 1]) + FromHexChar(str[2 * i])]]

\* strings.SplitN(s, ":", 2).
SplitN2(str) ==
    IF \E i \in 1 .. Len(str) : str[i] = ":"
    THEN LET k == CHOOSE i \in 1 .. Len(str) :
                     /\ str[i] = ":"
                     /\ \A j \in 1 .. (i - 1) : str[j] # ":"
         IN  <<SubSeq(str, 1, k - 1), SubSeq(str, k + 1, Len(str))>>
    ELSE <<str>>

\* net.IPv4(a, b, c, d): the 16-byte form with the v4InV6Prefix.
IPv4(a, b, c, d) == <<0, 0, 0, 0, 0, 0, 0, 0, 0, 0, 255, 255, a, b, c, d>>

\* The whole 16-byte block reversed.
IPv6WordsBlockReversed(ipBytes) == [i \in 1 .. 16 |-> ipBytes[17 - i]]

\* parseHexAddr, lines 402-409: the 4 bytes of each group reversed.
IPv6Words(ipBytes) ==
    [i \in 1 .. 16 |->
       LET off == 4 * ((i - 1) \div 4)
           k == (i - 1) % 4
       IN  ipBytes[off + 4 - k]]

AddrError == [err |-> TRUE, ip |-> <<>>, port |-> 0]

\* parseHexAddr, lines 374-419.
parseHexAddr(str, isIPv6) ==
    LET parts == SplitN2(str) IN
    IF Len(parts) # 2 THEN AddrError
    ELSE
      LET portBytes == HexDecodeString(parts[2])
          ipBytes == HexDecodeString(parts[1])
      IN  IF portBytes.err \/ Len(portBytes.bytes) # 2 THEN AddrError
          ELSE IF ipBytes.err THEN AddrError
          ELSE LET port == (portBytes.bytes[1] * 256 + portBytes.bytes[2]) % 65536
                   b == ipBytes.bytes
               IN  IF isIPv6
                   THEN IF Len(b) # 16 THEN AddrError
                        ELSE [err |-> FALSE, ip |-> IPv6Words(b), port |-> port]
                   ELSE IF Len(b) # 4 THEN AddrError
                        ELSE [err |-> FALSE, ip |-> IPv4(b[4], b[3], b[2], b[1]),
                              port |-> port]

\* net.IP.To4: the last four bytes of a 16-byte address with the
\* v4InV6Prefix, <<>> (nil) for any other 16-byte address.
To4(ip) ==
    IF Len(ip) = 4 THEN ip
    ELSE IF /\ Len(ip) = 16
            /\ \A i \in 1 .. 10 : ip[i] = 0
            /\ ip[11] = 255 /\ ip[12] = 255
         THEN SubSeq(ip, 13, 16)
         ELSE <<>>

IPv6loopback == <<0, 0, 0, 0, 0, 0, 0, 0, 0, 0, 0, 0, 0, 0, 0, 1>>

\* net.IP.IsLoopback.
IsLoopback(ip) ==
    IF To4(ip) # <<>> THEN To4(ip)[1] = 127 ELSE ip = IPv6loopback

\* net.IP.String, up to the spelling: the dotted quad of an address that has
\* a 4-byte form, the 16 bytes otherwise.
IPString(ip) == IF To4(ip) # <<>> THEN To4(ip) ELSE ip

\* How the kernel prints an address into the table: each 32-bit word of the
\* address as one little-endian number in hex, then the port in hex.
HexOf(bytes) ==
    [i \in 1 .. (2 * Len(bytes)) |->
       IF i % 2 = 1 THEN HexDigits[(bytes[(i + 1) \div 2] \div 16) + 1]
                    ELSE HexDigits[(bytes[i \div 2] % 16) + 1]]

ProcAddr(ip, port) ==
    HexOf([i \in 1 .. Len(ip) |->
             ip[4 * ((i - 1) \div 4) + 4 - ((i - 1) % 4)]])
    \o <<":">> \o HexOf(<<port \div 256, port % 256>>)

\* Remote addresses of the rows under study.
PeerA == <<1, 2, 3, 4>>

PeerB == <<5, 6, 7, 8>>

Peer6 == <<32, 1, 13, 184, 0, 0, 0, 0, 0, 0, 0, 0, 0, 0, 0, 1>>

MappedLoopback == <<0, 0, 0, 0, 0, 0, 0, 0, 0, 0, 255, 255, 127, 0, 0, 1>>

\* 0100007F:0050, the kernel's spelling of 127.0.0.1:80.
LoopbackAddr == <<"0", "1", "0", "0", "0", "0", "7", "F", ":", "0", "0", "5", "0">>

\* A row of a table, split into its fields (strings.Fields): sl,
\* local_address, rem_address, st, and the rest.
Row(rem, st) == <<"0:", "local", rem, st, "rest">>

TcpRows ==
    {Row(ProcAddr(PeerA, 80), "01"),
     Row(ProcAddr(PeerB, 443), "06"),
     Row(ProcAddr(PeerB, 443), "0C"),
     Row(LoopbackAddr, "01"),
     Row(ProcAddr(<<0, 0, 0, 0>>, 0), "0A"),
     Row(<<"0", "1", "0", "0", "0", "0", "7", "G", ":", "0", "0", "5", "0">>, "01"),
     <<"0:", "local">>}

Tcp6Rows ==
    {Row(ProcAddr(Peer6, 443), "01"),
     Row(ProcAddr(IPv6loopback, 443), "01"),
     Row(ProcAddr(MappedLoopback, 80), "01"),
     Row(ProcAddr(PeerA, 80), "01")}

RECURSIVE SeqsUpTo(_, _)
SeqsUpTo(S, n) ==
    IF n = 0 THEN {<<>>}
    ELSE LET shorter == SeqsUpTo(S, n - 1) IN
         shorter \cup {Append(q, x) : q \in shorter, x \in S}

\* What os.Open and the scanner give for a table: an error, no line at all,
\* or the header line and the data rows.
TableFiles(rows, n) ==
    {[err |-> TRUE, lines |-> <<>>], [err |-> FALSE, lines |-> <<>>]}
    \cup {[err |-> FALSE, lines |-> <<"header">> \o q] : q \in SeqsUpTo(rows, n)}

\* The GeoLite2 database: GeoIPResolver.Lookup on a non-nil resolver.
Lookup(ip) ==
    IF IPString(ip) = PeerA THEN "IR"
    ELSE IF IPString(ip) = Peer6 THEN "DE"
    ELSE "XX"

\* tcpStates, lines 244-256.
tcpStates ==
    [code \in {"01", "02", "03", "04", "05", "06", "07", "08", "09", "0A", "0B"} |->
       CASE code = "01" -> "established"
         [] code = "02" -> "syn_sent"
         [] code = "03" -> "syn_recv"
         [] code = "04" -> "fin_wait1"
         [] code = "05" -> "fin_wait2"
         [] code = "06" -> "time_wait"
         [] code = "07" -> "close"
         [] code = "08" -> "close_wait"
         [] code = "09" -> "last_ack"
         [] code = "0A" -> "listen"
         [] code = "0B" -> "closing"]

\* A Go map[string]int: reading a missing key gives 0, m[k]++ creates it.
MapGet(m, k) == IF k \in DOMAIN m THEN m[k] ELSE 0

MapAdd(m, k, n) == [x \in DOMAIN m \cup {k} |-> MapGet(m, x) + (IF x = k THEN n ELSE 0)]

EmptyMap == [x \in {} |-> 0]

\* The file parseProcNetTCP is reading: tcp first, then tcp6.
ConnFile == IF conn.proto = 1 THEN conn.tcp ELSE conn.tcp6

\* The for loop of line 269 goes on to tcp6, or ends.
ConnNextProto ==
    IF conn.proto = 1 THEN [conn EXCEPT !.proto = 2, !.pc = "open"]
                      ELSE [conn EXCEPT !.pc = "finish"]

\* parseProcNetTCP, lines 328-340: an error of os.Open makes the caller go
\* on (line 273); without a header line there are no entries.
ConnOpen ==
    /\ conn.pc = "open"
    /\ conn' = IF ConnFile.err \/ Len(ConnFile.lines) = 0
               THEN ConnNextProto
               ELSE [conn EXCEPT !.pc = "parse", !.line = 2, !.entries = <<>>]
    /\ UNCHANGED <<agg, rate, ioVars>>
    /\ UNCHANGED <<sessVars, lockVars, discVars, cycleVars>>

\* parseProcNetTCP, lines 344-360: the row is empty, has fewer than four
\* fields, or its remote address does not parse.
RowSkipped(row, isIPv6) ==
    \/ row = <<>>
    \/ Len(row) < 4
    \/ parseHexAddr(row[3], isIPv6).err

\* parseProcNetTCP, lines 342-367, for one line of the file.
ConnParseLine ==
    /\ conn.pc = "parse"
    /\ conn.line <= Len(ConnFile.lines)
    /\ LET row == ConnFile.lines[conn.line]
           isIPv6 == conn.proto = 2
       IN  conn' = [conn EXCEPT
                      !.line = @ + 1,
                      !.last = [kind |-> "line", row |-> row],
                      !.entries =
                         IF RowSkipped(row, isIPv6) THEN @
                         ELSE LET a == parseHexAddr(row[3], isIPv6) IN
                              Append(@, [remoteIP |-> a.ip, remotePort |-> a.port,
                                         state |-> row[4]])]
    /\ UNCHANGED <<agg, rate, ioVars>>
    /\ UNCHANGED <<sessVars, lockVars, discVars, cycleVars>>

\* parseProcNetTCP, line 369: the entries go to the loop of line 276.
ConnParsed ==
    /\ conn.pc = "parse"
    /\ conn.line > Len(ConnFile.lines)
    /\ conn' = [conn EXCEPT !.pc = "count", !.entry = 1]
    /\ UNCHANGED <<agg, rate, ioVars>>
    /\ UNCHANGED <<sessVars, lockVars, discVars, cycleVars>>

\* A filter that lets loopback peers through.
ExcludedEntryPortOnly(e) == e.remotePort = 0

\* collectContainerConnections, lines 278-283.
ExcludedEntry(e) == e.remotePort = 0 \/ IsLoopback(e.remoteIP)

\* A decoder that counts only established connections by state.
StatesAfterEstablishedOnly(states, code) ==
    IF code = "01" THEN MapAdd(states, "established", 1) ELSE states

\* A decoder that files the codes it does not know under "unknown".
StatesAfterUnknownBucket(states, code) ==
    IF code \in DOMAIN tcpStates THEN MapAdd(states, tcpStates[code], 1)
                                 ELSE MapAdd(states, "unknown", 1)

\* Lines 287-289.
StatesAfter(states, code) ==
    IF code \in DOMAIN tcpStates THEN MapAdd(states, tcpStates[code], 1)
                                 ELSE states

\* Lines 296-301: geo.Lookup never answers "" on a resolver that is not nil.
CountryCountsAfter(counts, e, geoNil) ==
    IF e.state = "01" /\ ~geoNil THEN MapAdd(counts, Lookup(e.remoteIP), 1)
                                 ELSE counts

\* Lines 276-302 for one entry (unknown is history: the counted entries
\* whose state code tcpStates does not hold).
ConnCount ==
    /\ conn.pc = "count"
    /\ conn.entry <= Len(conn.entries)
    /\ LET e == conn.entries[conn.entry] IN
       conn' = IF ExcludedEntry(e)
               THEN [conn EXCEPT !.entry = @ + 1,
                                 !.last = [kind |-> "entry", e |-> e]]
               ELSE [conn EXCEPT
                       !.entry = @ + 1,
                       !.last = [kind |-> "entry", e |-> e],
                       !.stats.Total = @ + 1,
                       !.stats.States = StatesAfter(@, e.state),
                       !.uniqueIPs = @ \cup {IPString(e.remoteIP)},
                       !.countryCounts = CountryCountsAfter(@, e, conn.geoNil),
                       !.unknown = IF e.state \in DOMAIN tcpStates THEN @ ELSE @ + 1]
    /\ UNCHANGED <<agg, rate, ioVars>>
    /\ UNCHANGED <<sessVars, lockVars, discVars, cycleVars>>

\* The loop of line 276 is over.
ConnCounted ==
    /\ conn.pc = "count"
    /\ conn.entry > Len(conn.entries)
    /\ conn' = ConnNextProto
    /\ UNCHANGED <<agg, rate, ioVars>>
    /\ UNCHANGED <<sessVars, lockVars, discVars, cycleVars>>

\* A list of CountryStats is in the order sort.Slice leaves with the less
\* function of lines 312-314 and 458-460: no count before a higher one.
SortedByCount(list) ==
    \A i, j \in DOMAIN list : i < j => list[i].Connections >= list[j].Connections

\* The lists that ranging over the map and sort.Slice may leave.
CountryLists(counts) ==
    {q \in Orderings({[Country |-> c, Connections |-> counts[c]] : c \in DOMAIN counts}) :
        SortedByCount(q)}

\* Lines 305-316.
ConnFinish ==
    /\ conn.pc = "finish"
    /\ \E q \in CountryLists(conn.countryCounts) :
         conn' = [conn EXCEPT !.pc = "done",
                              !.stats.UniqueIPs = Cardinality(conn.uniqueIPs),
                              !.countries = q]
    /\ UNCHANGED <<agg, rate, ioVars>>
    /\ UNCHANGED <<sessVars, lockVars, discVars, cycleVars>>

InitConn ==
    /\ SessionIdle
    /\ LockIdle
    /\ DockerIdle
    /\ discovered = NotDiscovered
    /\ CycleIdle
    /\ agg = AggIdle
    /\ rate = RateIdle
    /\ IoIdle
    /\ \E f4 \in TableFiles(TcpRows, MaxRows), f6 \in TableFiles(Tcp6Rows, MaxRows6),
          g \in BOOLEAN :
         conn = [pc |-> "open", proto |-> 1, tcp |-> f4, tcp6 |-> f6, geoNil |-> g,
                 line |-> 0, entries |-> <<>>, entry |-> 0,
                 stats |-> [Total |-> 0, UniqueIPs |-> 0, States |-> EmptyMap],
                 uniqueIPs |-> {}, countryCounts |-> EmptyMap, countries |-> <<>>,
                 unknown |-> 0, last |-> [kind |-> "none"]]

NextConn ==
    \/ ConnOpen \/ ConnParseLine \/ ConnParsed
    \/ ConnCount \/ ConnCounted \/ ConnFinish

SpecConn == InitConn /\ [][NextConn]_vars

(***************************************************************************)
(* Claims about the connection table decoder, checked under SpecConn.      *)
(***************************************************************************)

\* The sum of the counts of a map.
RECURSIVE SumMap(_)
SumMap(m) ==
    IF DOMAIN m = {} THEN 0
    ELSE LET k == CHOOSE x \in DOMAIN m : TRUE IN
         m[k] + SumMap([x \in DOMAIN m \ {k} |-> m[x]])

\* C11 as stated: for every connection table processed by
\* collectContainerConnections, the per-state counts of the resulting
\* ConnectionStats sum to its Total.
C11_StatesSumToTotal ==
    conn.pc = "done" => SumMap(conn.stats.States) = conn.stats.Total

\* C11, amended: the per-state counts sum to Total minus the number of
\* counted rows whose state code is none of the eleven known codes; they sum
\* to Total when every counted row carries a known code, and never to more.
C11_StatesSumWithinTotal ==
    /\ SumMap(conn.stats.States) + conn.unknown = conn.stats.Total
    /\ SumMap(conn.stats.States) <= conn.stats.Total

\* A table with a row of a known and a row of an unknown code was counted.
C11_Witness ==
    /\ conn.pc = "done"
    /\ conn.unknown = 1
    /\ conn.stats.Total = 2
    /\ SumMap(conn.stats.States) = 1

\* The step is one pass of the loop of line 276, over entry e.
CountStep == conn.pc = "count" /\ conn'.pc = "count" /\ conn'.entry = conn.entry + 1

\* The remote address is 127.x.x.x, in 4-byte or IPv4-mapped form, or ::1.
LoopbackPeer(ip) ==
    \/ Len(ip) = 16 /\ SubSeq(ip, 1, 12) = <<0, 0, 0, 0, 0, 0, 0, 0, 0, 0, 255, 255>>
                    /\ ip[13] = 127
    \/ ip = <<0, 0, 0, 0, 0, 0, 0, 0, 0, 0, 0, 0, 0, 0, 0, 1>>

PassesFilter(e) == e.remotePort # 0 /\ ~LoopbackPeer(e.remoteIP)

KnownCodes == {"01", "02", "03", "04", "05", "06", "07", "08", "09", "0A", "0B"}

\* C12: a row that passes the exclusion filter and carries a state code that
\* is none of the eleven known codes increments Total by one and no
\* per-state bucket; a row with a known code increments Total and exactly
\* the one bucket named by the code.
C12_UnknownCodeCountsInTotalOnly ==
    [][CountStep /\ PassesFilter(conn.entries[conn.entry]) =>
         LET e == conn.entries[conn.entry]
             before == conn.stats.States
             after == conn'.stats.States
         IN  /\ conn'.stats.Total = conn.stats.Total + 1
             /\ e.state \notin KnownCodes => after = before
             /\ e.state \in KnownCodes =>
                  /\ MapGet(after, tcpStates[e.state])
                       = MapGet(before, tcpStates[e.state]) + 1
                  /\ \A b \in (DOMAIN after \cup DOMAIN before) \ {tcpStates[e.state]} :
                       MapGet(after, b) = MapGet(before, b)]_vars

\* A row with code 0C has just been counted after an established one: Total
\* is 2 and the only bucket is established, with 1.
C12_Witness ==
    /\ conn.last = [kind |-> "entry",
                    e |-> [remoteIP |-> IPv4(5, 6, 7, 8), remotePort |-> 443,
                           state |-> "0C"]]
    /\ conn.stats.Total = 2
    /\ conn.stats.States = [b \in {"established"} |-> 1]

\* The row is malformed for its table: fewer than four fields, or a remote
\* address that is not the hex of an address of the family and of a port.
Malformed(row, isIPv6) ==
    \/ Len(row) < 4
    \/ ~\E a \in {PeerA, PeerB, <<127, 0, 0, 1>>, <<0, 0, 0, 0>>, Peer6,
                  IPv6loopback, MappedLoopback} :
          /\ Len(a) = (IF isIPv6 THEN 16 ELSE 4)
          /\ \E port \in {0, 80, 443} : row[3] = ProcAddr(a, port)

\* The state codes of the rows of the file that are not malformed, in order.
WellFormedCodes(lines, isIPv6) ==
    LET Good(row) == ~Malformed(row, isIPv6)
        rows == SelectSeq(Tail(lines), Good)
    IN  [i \in DOMAIN rows |-> rows[i][4]]

\* Every row that is not malformed has become an entry, in the file's order.
ParseKeepsWellFormedRows ==
    conn.pc = "count" =>
        [i \in DOMAIN conn.entries |-> conn.entries[i].state]
            = WellFormedCodes(ConnFile.lines, conn.proto = 2)

\* A pass of the loop over an excluded entry changes no count.
ExcludedRowContributesNothing ==
    CountStep /\ ~PassesFilter(conn.entries[conn.entry]) =>
        /\ conn'.stats = conn.stats
        /\ conn'.uniqueIPs = conn.uniqueIPs
        /\ conn'.countryCounts = conn.countryCounts

\* C13: a row whose remote port is 0 or whose remote address is a loopback
\* address changes neither Total, nor a state bucket, nor the unique-IP set,
\* nor a country count; a malformed row (fewer than 4 fields, or an
\* unparseable hex address or port) is skipped without failing the parse of
\* the remaining rows.
C13_ExcludedAndMalformedRows ==
    [][ExcludedRowContributesNothing]_vars /\ []ParseKeepsWellFormedRows

\* After a row of two fields, the row of 127.0.0.1:80 was parsed, and the
\* loop has passed over it with every count still zero.
C13_Witness ==
    /\ conn.proto = 1
    /\ conn.tcp.lines = <<"header", <<"0:", "local">>, Row(LoopbackAddr, "01")>>
    /\ conn.pc = "count"
    /\ conn.entry = 2
    /\ conn.last.kind = "entry"
    /\ conn.stats.Total = 0
    /\ conn.uniqueIPs = {}

(***************************************************************************)
(* SpecHexAddr: parseHexAddr applied to one remote-address field.  The     *)
(* field is the hex of address bytes b and port bytes p, spoilt or not.    *)
(***************************************************************************)
ByteValues == {0, 1, 127, 171}

WordValues == {<<0, 0, 0, 0>>, <<0, 0, 0, 1>>, <<1, 0, 0, 0>>, <<184, 13, 1, 32>>}

PortByteValues == {<<0, 0>>, <<0, 80>>, <<1, 187>>, <<80>>, <<0, 1, 187>>}

AddrByteValues ==
    {<<a, b, c, d>> : a \in ByteValues, b \in ByteValues, c \in {0, 1}, d \in {1, 127}}
    \cup {w1 \o w2 \o w3 \o w4 : w1 \in WordValues, w2 \in {<<0, 0, 0, 0>>},
                                   w3 \in WordValues, w4 \in WordValues}
    \cup {<<1, 2, 3>>, <<1, 2, 3, 4, 5, 6, 7, 8>>}

Shapes == {"ok", "lower", "noColon", "twoColons", "oddIP", "badChar"}

\* The same hex digits in lower case.
ToLower(str) ==
    [i \in DOMAIN str |->
       IF \E v \in 1 .. 16 : HexDigits[v] = str[i]
       THEN LowerHexDigits[CHOOSE v \in 1 .. 16 : HexDigits[v] = str[i]]
       ELSE str[i]]

\* The field as the table holds it.
RenderAddr(b, p, shape) ==
    CASE shape = "ok" -> HexOf(b) \o <<":">> \o HexOf(p)
      [] shape = "lower" -> ToLower(HexOf(b)) \o <<":">> \o ToLower(HexOf(p))
      [] shape = "noColon" -> HexOf(b) \o HexOf(p)
      [] shape = "twoColons" -> HexOf(b) \o <<":">> \o HexOf(p) \o <<":">> \o HexOf(p)
      [] shape = "oddIP" -> Tail(HexOf(b)) \o <<":">> \o HexOf(p)
      [] shape = "badChar" -> <<"G">> \o Tail(HexOf(b)) \o <<":">> \o HexOf(p)

InitHexAddr ==
    /\ SessionIdle
    /\ LockIdle
    /\ DockerIdle
    /\ discovered = NotDiscovered
    /\ CycleIdle
    /\ agg = AggIdle
    /\ rate = RateIdle
    /\ IoIdle
    /\ \E b \in AddrByteValues, p \in PortByteValues, shape \in Shapes,
          isIPv6 \in BOOLEAN :
         conn = [pc |-> "addr", b |-> b, p |-> p, shape |-> shape,
                 str |-> RenderAddr(b, p, shape), isIPv6 |-> isIPv6,
                 out |-> AddrError]

\* The call of line 357.
ParseAddr ==
    /\ conn.pc = "addr"
    /\ conn' = [conn EXCEPT !.pc = "parsed",
                            !.out = parseHexAddr(conn.str, conn.isIPv6)]
    /\ UNCHANGED <<agg, rate, ioVars>>
    /\ UNCHANGED <<sessVars, lockVars, discVars, cycleVars>>

SpecHexAddr == InitHexAddr /\ [][ParseAddr]_vars

\* The field spells an address of the table's family and a 2-byte port.
WellFormedAddr ==
    /\ conn.shape \in {"ok", "lower"}
    /\ Len(conn.p) = 2
    /\ Len(conn.b) = (IF conn.isIPv6 THEN 16 ELSE 4)

\* B80D0120000000000000000001000000:01BB, the table's spelling of
\* [2001:db8::1]:443.
Peer6Addr ==
    <<"B", "8", "0", "D", "0", "1", "2", "0", "0", "0", "0", "0", "0", "0", "0", "0",
      "0", "0", "0", "0", "0", "0", "0", "0", "0", "1", "0", "0", "0", "0", "0", "0",
      ":", "0", "1", "B", "B">>

\* C14: parseHexAddr decodes HEXADDR:HEXPORT so that the port is the
\* big-endian value of the two port bytes, an IPv4 address is the four
\* address bytes in reversed order (0100007F decodes to 127.0.0.1), and an
\* IPv6 address is the 4 bytes of each of the four 32-bit words reversed,
\* the words kept in order; an address of any other byte length, or a port
\* that is not exactly two bytes, is rejected with an error.
C14_ParseHexAddr ==
    conn.pc = "parsed" =>
        LET out == conn.out
            b == conn.b
        IN  /\ ~WellFormedAddr => out.err
            /\ WellFormedAddr =>
                 /\ ~out.err
                 /\ out.port = 256 * conn.p[1] + conn.p[2]
                 /\ ~conn.isIPv6 => /\ Len(out.ip) = 16
                                    /\ SubSeq(out.ip, 13, 16) = <<b[4], b[3], b[2], b[1]>>
                 /\ conn.isIPv6 =>
                      out.ip = <<b[4], b[3], b[2], b[1], b[8], b[7], b[6], b[5],
                                 b[12], b[11], b[10], b[9], b[16], b[15], b[14], b[13]>>
            /\ conn.str = LoopbackAddr /\ ~conn.isIPv6 =>
                 /\ ~out.err
                 /\ SubSeq(out.ip, 13, 16) = <<127, 0, 0, 1>>
                 /\ out.port = 80
            /\ conn.str = Peer6Addr /\ conn.isIPv6 =>
                 /\ ~out.err
                 /\ out.ip = <<32, 1, 13, 184, 0, 0, 0, 0, 0, 0, 0, 0, 0, 0, 0, 1>>
                 /\ out.port = 443

\* The fixture of 2001:db8::1 has been decoded.
C14_Witness ==
    /\ conn.pc = "parsed"
    /\ conn.str = Peer6Addr
    /\ conn.isIPv6
    /\ conn.out = [err |-> FALSE, ip |-> Peer6, port |-> 443]

(***************************************************************************)
(* SpecMerge: mergeConnectionStats over the per-target stats, the report   *)
(* of its result, and mergeCountryStats over the per-source lists.         *)
(***************************************************************************)
MaxTargets == 2      \* entries of the lists handed to the merges

\* Per-target stats: nil, and what collectContainerConnections may return.
StatsValues ==
    {Nil,
     [Total |-> 0, UniqueIPs |-> 0, States |-> EmptyMap],
     [Total |-> 5, UniqueIPs |-> 0, States |-> [b \in {"established"} |-> 5]],
     [Total |-> 2, UniqueIPs |-> 2,
      States |-> [b \in {"established", "time_wait"} |-> 1]],
     [Total |-> 1, UniqueIPs |-> 1, States |-> EmptyMap]}

CS(code, n) == [Country |-> code, Connections |-> n]

\* Per-source country lists.
CountryListValues ==
    {<<>>,
     <<CS("A", 3), CS("B", 1)>>,
     <<CS("B", 2)>>,
     <<CS("A", 1), CS("C", 1)>>,
     <<CS("C", 1), CS("C", 2)>>}

ZeroStats == [Total |-> 0, UniqueIPs |-> 0, States |-> EmptyMap]

\* A map with, under each key of either map, the sum of the two counts.
MapSum(m1, m2) ==
    [k \in DOMAIN m1 \cup DOMAIN m2 |-> MapGet(m1, k) + MapGet(m2, k)]

\* A merge that takes the larger of the two unique-IP counts.
MergedAfterMaxIPs(merged, st) ==
    IF st = Nil THEN merged
    ELSE [Total |-> merged.Total + st.Total,
          UniqueIPs |-> Max(merged.UniqueIPs, st.UniqueIPs),
          States |-> MapSum(merged.States, st.States)]

\* A merge that forgets the totals.
MergedAfterNoTotal(merged, st) ==
    IF st = Nil THEN merged
    ELSE [Total |-> merged.Total,
          UniqueIPs |-> merged.UniqueIPs + st.UniqueIPs,
          States |-> MapSum(merged.States, st.States)]

\* mergeConnectionStats, lines 428-439, for one entry of `all`.
MergedAfter(merged, st) ==
    IF st = Nil THEN merged
    ELSE [Total |-> merged.Total + st.Total,
          UniqueIPs |-> merged.UniqueIPs + st.UniqueIPs,
          States |-> MapSum(merged.States, st.States)]

MergeFrame ==
    /\ UNCHANGED <<conn, rate, ioVars>>
    /\ UNCHANGED <<sessVars, lockVars, discVars, cycleVars>>

MergeConnStep ==
    /\ agg.pc = "conn"
    /\ agg.i <= Len(agg.all)
    /\ agg' = [agg EXCEPT !.merged = MergedAfter(@, agg.all[agg.i]), !.i = @ + 1]
    /\ MergeFrame

\* mergeConnectionStats, line 442.
MergeConnReturn ==
    /\ agg.pc = "conn"
    /\ agg.i > Len(agg.all)
    /\ agg' = [agg EXCEPT !.pc = "report"]
    /\ MergeFrame

\* No connection, no address and no state was counted.
AllZero(merged) ==
    /\ merged.Total = 0
    /\ merged.UniqueIPs = 0
    /\ \A k \in DOMAIN merged.States : merged.States[k] = 0

\* The caller of mergeConnectionStats: an all-zero result is no connection
\* data.
ReportedConnections(merged) == IF AllZero(merged) THEN Nil ELSE merged

ReportConn ==
    /\ agg.pc = "report"
    /\ agg' = [agg EXCEPT !.pc = "country", !.reported = ReportedConnections(agg.merged)]
    /\ MergeFrame

\* A merge that keeps the last count of a country.
CountsAfterOverwrite(counts, cs) ==
    [k \in DOMAIN counts \cup {cs.Country} |->
       IF k = cs.Country THEN cs.Connections ELSE counts[k]]

\* mergeCountryStats, line 450.
CountsAfter(counts, cs) == MapAdd(counts, cs.Country, cs.Connections)

\* mergeCountryStats, lines 449-451: the inner loop over one list.
RECURSIVE CountsAfterList(_, _)
CountsAfterList(counts, list) ==
    IF list = <<>> THEN counts
    ELSE CountsAfterList(CountsAfter(counts, Head(list)), Tail(list))

MergeCountryStep ==
    /\ agg.pc = "country"
    /\ agg.j <= Len(agg.lists)
    /\ agg' = [agg EXCEPT !.counts = CountsAfterList(@, agg.lists[agg.j]), !.j = @ + 1]
    /\ MergeFrame

\* mergeCountryStats, lines 454-462.
MergeCountryReturn ==
    /\ agg.pc = "country"
    /\ agg.j > Len(agg.lists)
    /\ \E q \in CountryLists(agg.counts) :
         agg' = [agg EXCEPT !.pc = "done", !.result = q]
    /\ MergeFrame

InitMerge ==
    /\ SessionIdle
    /\ LockIdle
    /\ DockerIdle
    /\ discovered = NotDiscovered
    /\ CycleIdle
    /\ conn = ConnIdle
    /\ rate = RateIdle
    /\ IoIdle
    /\ \E all \in SeqsUpTo(StatsValues, MaxTargets),
          lists \in SeqsUpTo(CountryListValues, MaxTargets) :
         agg = [pc |-> "conn", all |-> all, i |-> 1, merged |-> ZeroStats,
                reported |-> Nil, lists |-> lists, j |-> 1, counts |-> EmptyMap,
                result |-> <<>>]

NextMerge ==
    \/ MergeConnStep \/ MergeConnReturn \/ ReportConn
    \/ MergeCountryStep \/ MergeCountryReturn

SpecMerge == InitMerge /\ [][NextMerge]_vars

(***************************************************************************)
(* Claims about the merges, checked under SpecMerge.                       *)
(***************************************************************************)

RECURSIVE SumSeq(_)
SumSeq(q) == IF q = <<>> THEN 0 ELSE Head(q) + SumSeq(Tail(q))

\* The entries of `all` that are not nil.
Targets == SelectSeq(agg.all, LAMBDA st : st # Nil)

\* mergeConnectionStats has returned.
ConnMerged == agg.pc \in {"report", "country", "done"}

\* C15: mergeConnectionStats over any list of per-target stats (nil entries
\* skipped) returns Total equal to the sum of the targets' Totals, each
\* state bucket equal to the sum of that bucket over the targets, and
\* UniqueIPs equal to the plain sum of the targets' UniqueIPs; merging
\* [{Total:5, States:{established:5}}, {Total:0}] gives
\* {Total:5, States:{established:5}}.
C15_MergeConnectionStatsSums ==
    ConnMerged =>
        LET m == agg.merged IN
        /\ m.Total = SumSeq([i \in DOMAIN Targets |-> Targets[i].Total])
        /\ m.UniqueIPs = SumSeq([i \in DOMAIN Targets |-> Targets[i].UniqueIPs])
        /\ \A b \in {"established", "time_wait", "listen"} :
             MapGet(m.States, b)
               = SumSeq([i \in DOMAIN Targets |-> MapGet(Targets[i].States, b)])
        /\ \A b \in DOMAIN m.States : \E i \in DOMAIN Targets : b \in DOMAIN Targets[i].States
        /\ agg.all = <<[Total |-> 5, UniqueIPs |-> 0,
                        States |-> [b \in {"established"} |-> 5]],
                       [Total |-> 0, UniqueIPs |-> 0, States |-> EmptyMap]>>
             => m = [Total |-> 5, UniqueIPs |-> 0,
                     States |-> [b \in {"established"} |-> 5]]

\* Two targets with two addresses each have been merged into four.
C15_Witness ==
    /\ ConnMerged
    /\ Len(agg.all) = 2
    /\ agg.all[1] = agg.all[2]
    /\ agg.all[1] # Nil
    /\ agg.all[1].UniqueIPs = 2
    /\ agg.merged.UniqueIPs = 4
    /\ agg.merged.Total = 4
    /\ agg.merged.States = [b \in {"established", "time_wait"} |-> 2]

\* No target contributed a connection: every entry is nil or counts nothing.
NothingContributed ==
    \A i \in DOMAIN agg.all :
        \/ agg.all[i] = Nil
        \/ /\ agg.all[i].Total = 0
           /\ agg.all[i].UniqueIPs = 0
           /\ \A b \in DOMAIN agg.all[i].States : agg.all[i].States[b] = 0

InputCount(code) ==
    SumSeq([i \in DOMAIN agg.lists |->
              SumSeq([k \in DOMAIN agg.lists[i] |->
                        IF agg.lists[i][k].Country = code
                        THEN agg.lists[i][k].Connections ELSE 0])])

\* C17: mergeCountryStats over any list of per-source country lists returns
\* a list in which every country code that occurs in an input occurs
\* exactly once, with the sum of that code's counts over all inputs (so the
\* total of all counts is preserved), ordered by count non-increasing.
C17_MergeCountryStats ==
    agg.pc = "done" =>
        LET out == agg.result IN
        /\ \A i, j \in DOMAIN out : out[i].Country = out[j].Country => i = j
        /\ {out[i].Country : i \in DOMAIN out}
             = {c \in {"A", "B", "C"} : \E i \in DOMAIN agg.lists :
                                           \E k \in DOMAIN agg.lists[i] :
                                              agg.lists[i][k].Country = c}
        /\ \A i \in DOMAIN out : out[i].Connections = InputCount(out[i].Country)
        /\ SumSeq([i \in DOMAIN out |-> out[i].Connections])
             = InputCount("A") + InputCount("B") + InputCount("C")
        /\ \A i \in DOMAIN out :
             i + 1 \in DOMAIN out => out[i].Connections >= out[i + 1].Connections

\* {A:3, B:1} and {B:2} have been merged: B, now also 3, may come first.
C17_Witness ==
    /\ agg.pc = "done"
    /\ agg.lists = <<<<CS("A", 3), CS("B", 1)>>, <<CS("B", 2)>>>>
    /\ agg.result = <<CS("B", 3), CS("A", 3)>>

(***************************************************************************)
(* SpecScale: the country scaling estimator, over a snapshot of IP counts  *)
(* per country and a connected-client total.                               *)
(***************************************************************************)
MaxIPs == 3          \* IPs of one country in the snapshot
MaxClients == 8      \* the fleet's connected clients

\* The snapshots: one to three countries, each with 1 .. MaxIPs addresses.
SnapshotValues ==
    {<<CS("A", a)>> : a \in 1 .. MaxIPs}
    \cup {<<CS("A", a), CS("B", b)>> : a \in 1 .. MaxIPs, b \in 1 .. MaxIPs}
    \cup {<<CS("A", a), CS("B", b), CS("C", c)>> :
            a \in 1 .. MaxIPs, b \in 1 .. MaxIPs, c \in 1 .. MaxIPs}

\* The snapshot's total IP count.
RECURSIVE SnapshotTotal(_)
SnapshotTotal(raw) ==
    IF raw = <<>> THEN 0 ELSE Head(raw).Connections + SnapshotTotal(Tail(raw))

\* round(n / d) for n >= 0 and d > 0, halves away from zero as math.Round.
RoundDiv(n, d) == (2 * n + d) \div (2 * d)

\* estimated_country_count = round(raw_country_ip_count * connected_clients
\*                                 / total_snapshot_ip_count).
EstimatedCountryCount(rawCount, connected, total) ==
    RoundDiv(rawCount * connected, total)

ScaleCountries(raw, connected) ==
    LET total == SnapshotTotal(raw) IN
    IF total = 0 THEN raw
    ELSE [i \in DOMAIN raw |->
            CS(raw[i].Country,
               EstimatedCountryCount(raw[i].Connections, connected, total))]

InitScale ==
    /\ SessionIdle
    /\ LockIdle
    /\ DockerIdle
    /\ discovered = NotDiscovered
    /\ CycleIdle
    /\ conn = ConnIdle
    /\ rate = RateIdle
    /\ IoIdle
    /\ \E raw \in SnapshotValues, c \in 0 .. MaxClients :
         agg = [pc |-> "scale", raw |-> raw, connected |-> c, out |-> <<>>]

Scale ==
    /\ agg.pc = "scale"
    /\ agg' = [agg EXCEPT !.pc = "scaled", !.out = ScaleCountries(agg.raw, agg.connected)]
    /\ MergeFrame

SpecScale == InitScale /\ [][Scale]_vars

\* C18: for every authoritative country/IP snapshot with total IP count
\* T > 0 and every connected-client total C, the rescaled per-country
\* counts round(raw_country_ip_count * C / T) sum exactly to C (for raw
\* {A:3, B:1}, T = 4, C = 8 the result is {A:6, B:2}, summing to 8).
C18_ScaledCountsSumToClients ==
    agg.pc = "scaled" /\ SnapshotTotal(agg.raw) > 0 =>
        /\ SumSeq([i \in DOMAIN agg.out |-> agg.out[i].Connections]) = agg.connected
        /\ agg.raw = <<CS("A", 3), CS("B", 1)>> /\ agg.connected = 8
             => agg.out = <<CS("A", 6), CS("B", 2)>>

(***************************************************************************)
(* SpecRate: collectSystemMetrics called again and again; readCPU and      *)
(* readNetwork against prevCPU, prevNet and prevNetTime.  The counters are *)
(* unsigned and CounterBits wide (64 in the program), so a subtraction     *)
(* wraps; float64 arithmetic is taken as exact; a figure that the program  *)
(* rounds to two decimals is held in hundredths; times are milliseconds.   *)
(***************************************************************************)
CounterBits == 20    \* width of the unsigned counters, at the model's scale
MaxSysSamples == 2   \* calls of collectSystemMetrics

CounterMod == 2 ^ CounterBits

\* Unsigned subtraction.
USub(a, b) == (a - b) % CounterMod

\* Unsigned addition.
UAdd(a, b) == (a + b) % CounterMod

\* int64(x) of an unsigned x.
ToSigned(x) == IF x >= CounterMod \div 2 THEN x - CounterMod ELSE x

\* math.Round(n / d * 100) for d > 0: n / d in hundredths, a half rounded
\* away from zero.
RoundHundredths(n, d) ==
    LET a == IF n < 0 THEN 0 - n ELSE n
        r == 100 * (a % d)
        h == 100 * (a \div d) + (2 * r + d) \div (2 * d)
    IN  IF n < 0 THEN 0 - h ELSE h

\* /proc/stat as readCPU sees it: kind "cpu" is a first line that starts
\* with "cpu " and whose fields after it are `values` (a negative number is
\* a field strconv.ParseUint rejects); the other kinds are a file that does
\* not open, an empty file, and a first line of another kind.
StatLine(values) == [kind |-> "cpu", values |-> values]

StatValues ==
    {[kind |-> "unreadable", values |-> <<>>],
     [kind |-> "other", values |-> <<>>],
     StatLine(<<100, 0, 0>>),
     StatLine(<<100, 0, 0, 100>>),
     StatLine(<<150, 0, 0, 150>>),
     StatLine(<<250, 0, 0, 150>>),
     StatLine(<<150, 0, 0, 100, 0, 0, 0, 0, 0, 0, 999>>),
     StatLine(<<190, 0 - 1, 0, 140, 30, 0, 0, 0, 0, 0>>)}

\* strconv.ParseUint(f, 10, 64), with its error dropped: 0 on an error.
ParseUint(f) == IF f < 0 THEN 0 ELSE f % CounterMod

\* readCPU, lines 84-87: the first ten fields after "cpu".
CPUValues(values) ==
    [i \in 1 .. 10 |-> IF i <= Len(values) THEN ParseUint(values[i]) ELSE 0]

RECURSIVE USum(_)
USum(q) == IF q = <<>> THEN 0 ELSE UAdd(Head(q), USum(Tail(q)))

\* readCPU, lines 89-95.
CPUSample(values) ==
    [idle |-> CPUValues(values)[4], total |-> USum(CPUValues(values))]

\* readCPU, lines 62-81: the returns before a sample is built.
CPUUnreadable(stat) == stat.kind # "cpu" \/ Len(stat.values) + 1 < 5

\* readCPU, lines 97-103, in hundredths of a percent.
CPUPercent(prev, current, old) ==
    IF prev = Nil THEN old
    ELSE LET totalDelta == USub(current.total, prev.total)
             idleDelta == USub(current.idle, prev.idle)
         IN  IF totalDelta > 0
             THEN RoundHundredths(100 * (totalDelta - idleDelta), totalDelta)
             ELSE old

\* A line of /proc/net/dev: the interface name before the colon ("" for a
\* line without a colon) and the fields after it.
DevLine(iface, rxBytes, rxErrors, rxDropped, txBytes, txErrors, txDropped) ==
    [iface |-> iface,
     fields |-> <<rxBytes, 0, rxErrors, rxDropped, 0, 0, 0, 0,
                  txBytes, 0, txErrors, txDropped, 0, 0, 0, 0>>]

DevHeader == [iface |-> "", fields |-> <<>>]

DevFile(lines) == [kind |-> "dev", lines |-> <<DevHeader, DevHeader>> \o lines]

NetDevValues ==
    {[kind |-> "unreadable", lines |-> <<>>],
     DevFile(<<>>),
     DevFile(<<DevLine("lo", 7000, 1, 1, 7000, 1, 1),
               DevLine("eth0", 1000, 0, 0, 500, 0, 0)>>),
     DevFile(<<DevLine("lo", 9000, 3, 3, 9000, 3, 3),
               DevLine("eth0", 1001000, 2, 1, 250500, 1, 0)>>),
     DevFile(<<DevLine("eth0", 1000000, 2, 1, 250000, 1, 0),
               DevLine("veth1", 1000, 1, 0, 500, 0, 2)>>),
     DevFile(<<[iface |-> "eth1", fields |-> <<5, 0, 5, 5, 0, 0, 0, 0, 5>>],
               DevLine("eth0", 1000, 0 - 1, 0, 500, 0, 0)>>),
     DevFile(<<DevLine("eth0", 1000, 0, 0, 500, 0, 0),
               [iface |-> "eth1", fields |-> <<5, 0, 5, 5, 0, 0, 0, 0, 5, 0>>]>>)}

\* Milliseconds between two calls of time.Now().
ElapsedValues == {0, 2500, 8000}

\* readNetwork, lines 182-195: the lines that are counted.
DevCounted(line) ==
    /\ line.iface # ""
    /\ line.iface # "lo"
    /\ Len(line.fields) >= 10

\* readNetwork, lines 202-203: fields[10] and fields[11] of a line that has
\* ten or eleven fields; the run-time panics.
DevPanics(lines) ==
    \E i \in 1 .. Len(lines) : DevCounted(lines[i]) /\ Len(lines[i].fields) < 12

RECURSIVE DevSum(_, _)
DevSum(lines, k) ==
    IF lines = <<>> THEN 0
    ELSE UAdd(IF DevCounted(Head(lines)) THEN ParseUint(Head(lines).fields[k])
                                         ELSE 0,
              DevSum(Tail(lines), k))

\* readNetwork, lines 176-211.
NetSample(lines) ==
    [rxBytes |-> DevSum(lines, 1), txBytes |-> DevSum(lines, 9),
     rxErrors |-> DevSum(lines, 3), txErrors |-> DevSum(lines, 11),
     rxDropped |-> DevSum(lines, 4), txDropped |-> DevSum(lines, 12)]

\* readNetwork, lines 219-220, in hundredths of a Mbps: delta * 8 /
\* (elapsed * 1e6) with elapsed = ms / 1000 is delta / (125 * ms).
Mbps(delta, ms) == RoundHundredths(delta, 125 * ms)

\* readNetwork, lines 213-225.
NetFigures(prev, prevTime, current, now, old) ==
    IF prev # Nil /\ prevTime # ZeroTime /\ now - prevTime > 0
    THEN [old EXCEPT
            !.NetInMbps = Mbps(USub(current.rxBytes, prev.rxBytes),
                               now - prevTime),
            !.NetOutMbps = Mbps(USub(current.txBytes, prev.txBytes),
                                now - prevTime),
            !.NetErrors =
                ToSigned(USub(UAdd(USub(current.rxErrors, prev.rxErrors),
                                   current.txErrors), prev.txErrors)),
            !.NetDrops =
                ToSigned(USub(UAdd(USub(current.rxDropped, prev.rxDropped),
                                   current.txDropped), prev.txDropped))]
    ELSE old

\* &SystemMetrics{}
ZeroMetrics ==
    [CPUPercent |-> 0, NetInMbps |-> 0, NetOutMbps |-> 0,
     NetErrors |-> 0, NetDrops |-> 0]

\* time.Now() at the first call, in milliseconds.
StartTime == 1000

RateFrame ==
    /\ UNCHANGED <<conn, agg, ioVars>>
    /\ UNCHANGED <<sessVars, lockVars, discVars, cycleVars>>

\* collectSystemMetrics, lines 41-49: nil when the proc path is missing.
CollectSystemMetrics ==
    /\ rate.pc = "begin"
    /\ rate.n < MaxSysSamples
    /\ \E exists \in BOOLEAN :
          rate' = [rate EXCEPT !.n = @ + 1,
                               !.m = IF exists THEN ZeroMetrics ELSE Nil,
                               !.pc = IF exists THEN "cpu" ELSE "begin"]
    /\ RateFrame

\* The slot filled once and then kept.
CPUSlotKept(prev, current) == IF prev = Nil THEN current ELSE prev

\* readCPU, line 105.
CPUSlot(prev, current) == current

\* readCPU, and the three reads after it that touch no previous sample.
ReadCPU ==
    /\ rate.pc = "cpu"
    /\ \E stat \in StatValues :
          rate' =
            IF CPUUnreadable(stat)
            THEN [rate EXCEPT !.pc = "net", !.stat = stat, !.cpuWas = rate.prevCPU]
            ELSE [rate EXCEPT
                    !.pc = "net", !.stat = stat, !.cpuWas = rate.prevCPU,
                    !.m.CPUPercent =
                        CPUPercent(rate.prevCPU, CPUSample(stat.values), @),
                    !.prevCPU = CPUSlot(rate.prevCPU, CPUSample(stat.values)),
                    !.cpuGood = CPUSample(stat.values)]
    /\ RateFrame

\* readNetwork, and the return of collectSystemMetrics.
ReadNetwork ==
    /\ rate.pc = "net"
    /\ \E dev \in NetDevValues, ms \in ElapsedValues :
          LET now == rate.now + ms
              was == [prevNet |-> rate.prevNet, prevNetTime |-> rate.prevNetTime]
          IN  rate' =
                IF dev.kind # "dev"
                THEN [rate EXCEPT !.pc = "begin", !.dev = dev, !.netWas = was,
                                  !.now = now]
                ELSE IF DevPanics(dev.lines)
                THEN [rate EXCEPT !.pc = "panic", !.dev = dev, !.netWas = was,
                                  !.now = now]
                ELSE [rate EXCEPT
                        !.pc = "begin", !.dev = dev, !.netWas = was,
                        !.now = now,
                        !.m = NetFigures(rate.prevNet, rate.prevNetTime,
                                         NetSample(dev.lines), now, @),
                        !.prevNet = NetSample(dev.lines),
                        !.prevNetTime = now,
                        !.netGood = [sample |-> NetSample(dev.lines),
                                     time |-> now]]
    /\ RateFrame

InitRate ==
    /\ rate = [pc |-> "begin", n |-> 0, now |-> StartTime, m |-> Nil,
               prevCPU |-> Nil, prevNet |-> Nil, prevNetTime |-> ZeroTime,
               stat |-> Nil, cpuWas |-> Nil, dev |-> Nil, netWas |-> Nil,
               cpuGood |-> Nil, netGood |-> [sample |-> Nil, time |-> ZeroTime]]
    /\ SessionIdle
    /\ LockIdle
    /\ DockerIdle
    /\ discovered = NotDiscovered
    /\ CycleIdle
    /\ conn = ConnIdle
    /\ agg = AggIdle
    /\ IoIdle

NextRate == CollectSystemMetrics \/ ReadCPU \/ ReadNetwork

SpecRate == InitRate /\ [][NextRate]_vars

(***************************************************************************)
(* Claims about the rate engine.  The differences of a claim are those of  *)
(* the integers, whatever the width of the counters.                       *)
(***************************************************************************)
\* n / d in hundredths for d # 0, a half rounded away from zero.
PlainHundredths(n, d) ==
    IF d > 0 THEN RoundHundredths(n, d) ELSE RoundHundredths(0 - n, 0 - d)

\* A call of readCPU that built a sample.
CPUStep ==
    /\ rate.pc = "cpu"
    /\ rate'.pc = "net"
    /\ ~CPUUnreadable(rate'.stat)

CPUExpected(prev, current) ==
    IF prev = Nil \/ current.total - prev.total = 0 THEN 0
    ELSE PlainHundredths(100 * ((current.total - prev.total)
                                   - (current.idle - prev.idle)),
                         current.total - prev.total)

\* C19: the CPU percentage is 0 on the first sample and whenever the total
\* has not moved since the previous sample, and otherwise it is
\* (1 - delta idle / delta total) * 100 rounded to two decimals, the deltas
\* being current minus previous; (idle 100, total 200) then (150, 300)
\* gives 50.00.
C19_CPUPercent ==
    [][CPUStep =>
         rate'.m.CPUPercent =
             CPUExpected(rate.prevCPU, CPUSample(rate'.stat.values))]_vars

\* A call of readNetwork that read the file to its end.
NetStep ==
    /\ rate.pc = "net"
    /\ rate'.pc = "begin"
    /\ rate'.dev.kind = "dev"

RECURSIVE PlainSum(_, _)
PlainSum(lines, k) ==
    IF lines = <<>> THEN 0
    ELSE (IF DevCounted(Head(lines)) /\ Head(lines).fields[k] >= 0
          THEN Head(lines).fields[k] ELSE 0)
         + PlainSum(Tail(lines), k)

NetExpected(prev, lines, ms, m) ==
    IF prev = Nil
    THEN /\ m.NetInMbps = 0
         /\ m.NetOutMbps = 0
         /\ m.NetErrors = 0
         /\ m.NetDrops = 0
    ELSE IF ms > 0
    THEN /\ m.NetInMbps = PlainHundredths(PlainSum(lines, 1) - prev.rxBytes,
                                          125 * ms)
         /\ m.NetOutMbps = PlainHundredths(PlainSum(lines, 9) - prev.txBytes,
                                           125 * ms)
         /\ m.NetErrors = (PlainSum(lines, 3) - prev.rxErrors)
                            + (PlainSum(lines, 11) - prev.txErrors)
         /\ m.NetDrops = (PlainSum(lines, 4) - prev.rxDropped)
                           + (PlainSum(lines, 12) - prev.txDropped)
    ELSE m.NetInMbps = 0 /\ m.NetOutMbps = 0

\* C20: on the first sample the two throughputs, the errors and the drops
\* are 0; with a previous sample and elapsed > 0 a throughput is
\* delta bytes * 8 / (elapsed * 1e6) rounded to two decimals, over the byte
\* counters summed over every interface but "lo" (1,000,000 bytes in 8 s is
\* 1.00 Mbps), and the errors and the drops are the differences rx + tx of
\* the summed counters, not divided by the time; with elapsed = 0 no
\* throughput is computed.
C20_NetworkFigures ==
    [][NetStep =>
         NetExpected(rate.prevNet, rate'.dev.lines, rate'.now - rate.prevNetTime,
                     rate'.m)]_vars

(***************************************************************************)
(* The average against the peak, checked under Spec.                       *)
(***************************************************************************)
\* C30: after any sequence of Update and UpdateFromCM calls the reported
\* average never exceeds the reported peak: connSum <= peakConns *
\* sampleCount in every reachable state, also right after a reset on a
\* counter regression and after an override of the peak from outside, and
\* what Snapshot reports obeys it (avg = connSum / sampleCount).
C30_AverageAtMostPeak ==
    /\ tracker.connSum <= tracker.peakConns * tracker.sampleCount
    /\ SnapshotAvg(tracker).num
          <= SnapshotResult(tracker).PeakConnections * SnapshotAvg(tracker).den

\* The uploads 100, 200, 50 have been fed, the third call reset the session
\* and its sample is the whole average: the average equals the peak.
C30_Witness ==
    /\ seqPos = 3
    /\ lastCall.op = "Update"
    /\ lastCall.totalConnected = 1
    /\ tracker.sampleCount = 1
    /\ tracker.connSum = tracker.peakConns * tracker.sampleCount
    /\ tracker.connSum > 0

(***************************************************************************)
(* The previous-sample slots, checked under SpecRate.  cpuGood and netGood *)
(* are history: the sample (and time) of the last read that built one.     *)
(***************************************************************************)
SlotsHoldLastRead ==
    /\ rate.prevCPU = rate.cpuGood
    /\ rate.prevNet = rate.netGood.sample
    /\ rate.prevNetTime = rate.netGood.time

CPUReadStep ==
    rate.pc = "cpu" /\ rate'.pc = "net" =>
        IF CPUUnreadable(rate'.stat)
        THEN /\ rate'.prevCPU = rate.prevCPU
             /\ rate'.m = rate.m
             /\ rate'.m.CPUPercent = 0
        ELSE rate'.prevCPU = CPUSample(rate'.stat.values)

NetReadStep ==
    rate.pc = "net" /\ rate'.pc = "begin" =>
        IF rate'.dev.kind # "dev"
        THEN /\ rate'.prevNet = rate.prevNet
             /\ rate'.prevNetTime = rate.prevNetTime
             /\ rate'.m = rate.m
             /\ rate'.m.NetInMbps = 0 /\ rate'.m.NetOutMbps = 0
             /\ rate'.m.NetErrors = 0 /\ rate'.m.NetDrops = 0
        ELSE /\ rate'.prevNet = NetSample(rate'.dev.lines)
             /\ rate'.prevNetTime = rate'.now

\* C29: each family (CPU, network) has one previous-sample slot; every read
\* that builds a sample puts it in the slot (the network read also the
\* current time), whether or not it computed a rate (first sample, total not
\* moved, elapsed = 0), so the slot is always the last sample read and a
\* delta is between two consecutive such reads; a read whose file does not
\* open leaves the slot as it was and the reported figures at zero.
C29_OneSlotPerFamily ==
    [][CPUReadStep /\ NetReadStep]_vars /\ []SlotsHoldLastRead

\* A network read at elapsed = 0 replaced the sample in the slot and
\* computed nothing, after a CPU read that replaced its slot too.
C29_Witness ==
    /\ rate.pc = "begin"
    /\ rate.n = 2
    /\ rate.netWas # Nil
    /\ rate.netWas.prevNet # Nil
    /\ rate.prevNet # rate.netWas.prevNet
    /\ rate.now = rate.netWas.prevNetTime
    /\ rate.m # Nil
    /\ rate.m.NetInMbps = 0
    /\ rate.m.NetErrors = 0
    /\ rate.cpuWas # Nil
    /\ rate.prevCPU # rate.cpuWas

(***************************************************************************)
(* SpecProm: the two text metrics parsers, parsePrometheusMetrics (one     *)
(* container's endpoint) and parsePrometheusText (the snowflake fleet).    *)
(* A line is a sequence of symbols: the bytes "{", "}", " " and "#" stand  *)
(* for themselves, every other symbol is a run of bytes with none of these *)
(* four in it (a name, a piece of a name, a label, a number).              *)
(***************************************************************************)
MaxLines == 2    \* lines of a body

\* strings.IndexByte, counted from 1; 0 for Go's -1.
IndexByte(str, c) ==
    IF \E i \in 1 .. Len(str) : str[i] = c
    THEN CHOOSE i \in 1 .. Len(str) :
            str[i] = c /\ \A j \in 1 .. i - 1 : str[j] # c
    ELSE 0

\* strings.TrimSpace
TrimSpace(str) ==
    LET kept == {i \in 1 .. Len(str) : str[i] # " "} IN
    IF kept = {} THEN <<>>
    ELSE SubSeq(str, CHOOSE i \in kept : \A j \in kept : i <= j,
                     CHOOSE i \in kept : \A j \in kept : i >= j)

\* strings.Fields
RECURSIVE Fields(_)
Fields(str) ==
    IF str = <<>> THEN <<>>
    ELSE IF Head(str) = " " THEN Fields(Tail(str))
    ELSE LET sp == IndexByte(str, " ") IN
         IF sp = 0 THEN <<str>>
         ELSE <<SubSeq(str, 1, sp - 1)>> \o Fields(SubSeq(str, sp, Len(str)))

\* strings.Contains(labels, `direction="in"`): the label is one symbol.
Contains(str, sym) == \E i \in 1 .. Len(str) : str[i] = sym

\* The numerals of the bodies and what strconv.ParseFloat makes of them.
NumberOf(sym) ==
    CASE sym = "0" -> 0 [] sym = "3" -> 3 [] sym = "4" -> 4 [] sym = "5" -> 5
      [] sym = "7" -> 7 [] sym = "10" -> 10 [] sym = "20" -> 20
      [] sym = "42" -> 42 [] sym = "-1" -> 0 - 1 [] sym = "1625" -> 1625

Numerals == {"0", "3", "4", "5", "7", "10", "20", "42", "-1", "1625"}

\* strconv.ParseFloat(s, 64)
ParseFloat(str) ==
    IF Len(str) = 1 /\ str[1] \in Numerals
    THEN [err |-> FALSE, val |-> NumberOf(str[1])]
    ELSE [err |-> TRUE, val |-> 0]

\* splitMetricLine, lines 199-209.
splitMetricLine(line) ==
    IF IndexByte(line, "{") # 0
    THEN [name |-> SubSeq(line, 1, IndexByte(line, "{") - 1),
          rest |-> SubSeq(line, IndexByte(line, "{"), Len(line))]
    ELSE IF IndexByte(line, " ") # 0
    THEN [name |-> SubSeq(line, 1, IndexByte(line, " ") - 1),
          rest |-> SubSeq(line, IndexByte(line, " "), Len(line))]
    ELSE [name |-> line, rest |-> <<>>]

\* splitLabelsAndValue, lines 212-217.
splitLabelsAndValue(str) ==
    IF IndexByte(str, "}") # 0
    THEN [labels |-> SubSeq(str, 1, IndexByte(str, "}")),
          valStr |-> SubSeq(str, IndexByte(str, "}") + 1, Len(str))]
    ELSE [labels |-> <<>>, valStr |-> str]

\* parseMetricValue, lines 220-227.
parseMetricValue(str) ==
    LET t == TrimSpace(str) IN
    ParseFloat(IF IndexByte(t, " ") # 0
               THEN SubSeq(t, 1, IndexByte(t, " ") - 1) ELSE t)

\* &AppMetrics{}
ZeroAppMetrics == [Connections |-> 0, TrafficIn |-> 0, TrafficOut |-> 0]

NoValue == [err |-> TRUE, val |-> 0]

\* parsePrometheusMetrics, lines 165-193: one turn of the scanner loop;
\* `taken` is history, the value the turn parsed for a name it knows.
MetricsAfterLine(metrics, raw) ==
    LET line == TrimSpace(raw)
        sp == splitMetricLine(line)
        lv == splitLabelsAndValue(sp.rest)
    IN  IF line = <<>> \/ HasPrefix(line, <<"#">>)
        THEN [metrics |-> metrics, taken |-> NoValue]
        ELSE IF sp.name = <<"active_connections">>
        THEN LET v == parseMetricValue(sp.rest) IN
             [metrics |-> IF v.err THEN metrics
                          ELSE [metrics EXCEPT !.Connections = v.val],
              taken |-> v]
        ELSE IF sp.name = <<"bytes_transferred_total">>
        THEN LET v == parseMetricValue(lv.valStr) IN
             [metrics |->
                 IF v.err THEN metrics
                 ELSE IF Contains(lv.labels, "direction=\"in\"")
                 THEN [metrics EXCEPT !.TrafficIn = v.val]
                 ELSE IF Contains(lv.labels, "direction=\"out\"")
                 THEN [metrics EXCEPT !.TrafficOut = v.val]
                 ELSE metrics,
              taken |-> v]
        ELSE [metrics |-> metrics, taken |-> NoValue]

\* extractPrometheusValue, lines 129-142.
extractPrometheusValue(line) ==
    LET fields == Fields(line) IN
    IF Len(fields) < 2 THEN NoValue
    ELSE LET v == ParseFloat(fields[Len(fields)]) IN
         IF v.err THEN NoValue ELSE v

\* &SnowflakeMetrics{}
ZeroSnowflakeMetrics ==
    [TotalConnections |-> 0, TimeoutsTotal |-> 0,
     InboundBytes |-> 0, OutboundBytes |-> 0]

\* The names parsePrometheusText looks for, in the order of its switch, and
\* the field each one feeds.
SnowflakeNames ==
    << [name |-> "tor_snowflake_proxy_connections_total",
        field |-> "TotalConnections"],
       [name |-> "tor_snowflake_proxy_connection_timeouts_total",
        field |-> "TimeoutsTotal"],
       [name |-> "tor_snowflake_proxy_traffic_inbound_bytes_total",
        field |-> "InboundBytes"],
       [name |-> "tor_snowflake_proxy_traffic_outbound_bytes_total",
        field |-> "OutboundBytes"] >>

\* parsePrometheusText, lines 90-122: one turn of the scanner loop.
TextAfterLine(metrics, line) ==
    LET hits == {k \in 1 .. Len(SnowflakeNames) :
                    HasPrefix(line, <<SnowflakeNames[k].name>>)}
    IN  IF HasPrefix(line, <<"#">>) \/ line = <<>> \/ hits = {}
        THEN [metrics |-> metrics, taken |-> NoValue]
        ELSE LET k == CHOOSE h \in hits : \A g \in hits : h <= g
                 v == extractPrometheusValue(line)
             IN  [metrics |->
                     IF v.val > 0
                     THEN [metrics EXCEPT ![SnowflakeNames[k].field] = @ + v.val]
                     ELSE metrics,
                  taken |-> v]

\* Lines of a container's metrics endpoint.
MetricsLines ==
    {<<"active_connections", " ", "42">>,
     <<"active_connections", " ", "7", " ", "1625">>,
     <<"active_connections", "{", "id=\"a\"", "}", " ", "5">>,
     <<" ", "active_connections", " ", "3", " ">>,
     <<"active_connections", " ", "NaN?">>,
     <<"active_connections", "_peak", " ", "4">>,
     <<"bytes_transferred_total", "{", "direction=\"in\"", "}", " ", "10",
       " ", "1625">>,
     <<"bytes_transferred_total", "{", "direction=\"out\"", "}", " ", "20">>,
     <<"bytes_transferred_total", " ", "5">>,
     <<"bytes_transferred_total", "_v2", "{", "direction=\"in\"", "}", " ", "4">>,
     <<"uptime_seconds", " ", "3">>,
     <<"#", " ", "HELP", " ", "active_connections", " ", "42">>,
     <<>>}

\* Lines of a snowflake proxy's metrics endpoint.
TextLines ==
    {<<"tor_snowflake_proxy_connections_total", " ", "5">>,
     <<"tor_snowflake_proxy_connections_total", "{", "country=\"US\"", "}",
       " ", "3">>,
     <<"tor_snowflake_proxy_connections_total", " ", "4", " ", "1625">>,
     <<"tor_snowflake_proxy_connections_total", "_created", " ", "7">>,
     <<"tor_snowflake_proxy_connections_total", " ", "-1">>,
     <<"tor_snowflake_proxy_connection_timeouts_total", " ", "3">>,
     <<"tor_snowflake_proxy_traffic_inbound_bytes_total", " ", "10">>,
     <<"tor_snowflake_proxy_traffic_outbound_bytes_total", " ", "20">>,
     <<"tor_snowflake_proxy_connections_total">>,
     <<"go_goroutines", " ", "42">>,
     <<"#", " ", "TYPE", " ", "tor_snowflake_proxy_connections_total", " ",
       "counter">>,
     <<>>}

PromFrame ==
    /\ UNCHANGED <<conn, agg, rate, web, cmfile>>
    /\ UNCHANGED <<sessVars, lockVars, discVars, cycleVars>>

\* parsePrometheusMetrics: scanner.Scan() and the body of the loop.
MetricsScan ==
    /\ prom.pc = "metrics"
    /\ prom.i <= Len(prom.body)
    /\ LET r == MetricsAfterLine(prom.metrics, prom.body[prom.i]) IN
       prom' = [prom EXCEPT !.i = @ + 1, !.line = prom.body[prom.i],
                            !.was = prom.metrics, !.metrics = r.metrics,
                            !.taken = r.taken]
    /\ PromFrame

\* parsePrometheusText: scanner.Scan() and the body of the loop.
TextScan ==
    /\ prom.pc = "text"
    /\ prom.i <= Len(prom.body)
    /\ LET r == TextAfterLine(prom.metrics, prom.body[prom.i]) IN
       prom' = [prom EXCEPT !.i = @ + 1, !.line = prom.body[prom.i],
                            !.was = prom.metrics, !.metrics = r.metrics,
                            !.taken = r.taken]
    /\ PromFrame

\* Either parser: the scanner is at the end of the body, the parser returns.
PromReturn ==
    /\ prom.pc \in {"metrics", "text"}
    /\ prom.i > Len(prom.body)
    /\ prom' = [prom EXCEPT !.pc = "returned"]
    /\ PromFrame

InitProm ==
    /\ SessionIdle
    /\ LockIdle
    /\ DockerIdle
    /\ CycleIdle
    /\ conn = ConnIdle
    /\ agg = AggIdle
    /\ rate = RateIdle
    /\ web = WebIdle
    /\ cmfile = FileIdle
    /\ \/ \E b \in SeqsUpTo(MetricsLines, MaxLines) :
            prom = [pc |-> "metrics", body |-> b, i |-> 1,
                    metrics |-> ZeroAppMetrics, was |-> ZeroAppMetrics,
                    taken |-> NoValue, line |-> <<>>]
       \/ \E b \in SeqsUpTo(TextLines, MaxLines) :
            prom = [pc |-> "text", body |-> b, i |-> 1,
                    metrics |-> ZeroSnowflakeMetrics,
                    was |-> ZeroSnowflakeMetrics,
                    taken |-> NoValue, line |-> <<>>]

NextProm == MetricsScan \/ TextScan \/ PromReturn

SpecProm == InitProm /\ [][NextProm]_vars

(***************************************************************************)
(* Claims about the text metrics parsers, checked under SpecProm.          *)
(***************************************************************************)
\* The name of a metric line: what stands before the first "{", or before
\* the first space when the line has no label block.
MetricName(line) == splitMetricLine(TrimSpace(line)).name

\* The tokens after the name, or after the "}" that closes the label block.
ValueTokens(line) ==
    LET t == TrimSpace(line) IN
    IF IndexByte(t, "{") # 0
    THEN IF IndexByte(t, "}") # 0
         THEN Fields(SubSeq(t, IndexByte(t, "}") + 1, Len(t)))
         ELSE <<>>
    ELSE IF IndexByte(t, " ") # 0
    THEN Fields(SubSeq(t, IndexByte(t, " "), Len(t)))
    ELSE <<>>

\* A turn of either scanner loop.
ScanStep == prom.pc \in {"metrics", "text"} /\ prom'.i = prom.i + 1

\* C21: whenever a parser takes a value from a metric line, it is the first
\* token after the name (no labels) or the token right after the closing
\* "}" (labels); a timestamp that follows the value never becomes the value.
C21_ValueIsFirstToken ==
    [][ScanStep /\ ~prom'.taken.err =>
          /\ ValueTokens(prom'.line) # <<>>
          /\ ParseFloat(ValueTokens(prom'.line)[1]) = prom'.taken]_vars

\* The names each parser knows.
AllowList ==
    IF prom.pc = "metrics"
    THEN {<<"active_connections">>, <<"bytes_transferred_total">>}
    ELSE {<<SnowflakeNames[k].name>> : k \in 1 .. Len(SnowflakeNames)}

\* C22: a line whose metric name is not exactly one of the names the parser
\* knows (a name that only begins with one of them included), a comment
\* line and an empty line leave every parsed field as it was.
C22_OnlyAllowListedNames ==
    [][ScanStep /\ MetricName(prom'.line) \notin AllowList =>
          prom'.metrics = prom.metrics]_vars

(***************************************************************************)
(* SpecWeb: main's start-up test of the secret, the two routes of the mux, *)
(* authMiddleware, statusHandler and healthHandler; pollLoop is seen only  *)
(* through what it puts into the cache.                                    *)
(***************************************************************************)
\* CONDUIT_AUTH_SECRET, as bytes.
SecretValues == {<<>>, <<"s">>, <<"s", "3">>}

\* The X-Conduit-Auth header of a request, present or not.
NoHeader == [present |-> FALSE, value |-> <<>>]

HeaderValues ==
    {NoHeader} \cup
    {[present |-> TRUE, value |-> v] :
        v \in {<<>>, <<"s">>, <<"s", "3">>, <<"s", "4">>, <<"s", "3", "x">>}}

PathValues == {"/status", "/health", "/status/", "/"}

\* r.Header.Get: "" when the header is absent.
HeaderGet(header) == IF header.present THEN header.value ELSE <<>>

\* A comparison that stops at the end of the token.
ComparePrefix(x, y) == IF HasPrefix(y, x) THEN 1 ELSE 0

\* subtle.ConstantTimeCompare: 1 when the slices have the same length and
\* the same bytes, else 0.
ConstantTimeCompare(x, y) ==
    IF Len(x) = Len(y) /\ \A i \in 1 .. Len(x) : x[i] = y[i] THEN 1 ELSE 0

\* healthHandler, lines 492-496.
healthHandler == [code |-> 200, text |-> "ok", snapshot |-> Nil]

\* statusHandler, lines 477-489.
statusHandler(c) ==
    IF c = Nil
    THEN [code |-> 503, text |-> "data not yet available", snapshot |-> Nil]
    ELSE [code |-> 200, text |-> "", snapshot |-> c]

\* authMiddleware, lines 463-474; `next` is what the wrapped handler writes.
authMiddleware(secret, header, next) ==
    IF ConstantTimeCompare(HeaderGet(header), secret) # 1
    THEN [code |-> 401, text |-> "unauthorized", snapshot |-> Nil]
    ELSE next

\* http.ServeMux with the two patterns of lines 533-534.
ServeMux(secret, path, header, c) ==
    IF path = "/status" THEN authMiddleware(secret, header, statusHandler(c))
    ELSE IF path = "/health" THEN healthHandler
    ELSE [code |-> 404, text |-> "404 page not found", snapshot |-> Nil]

WebFrame ==
    /\ UNCHANGED <<conn, agg, rate, prom, cmfile>>
    /\ UNCHANGED <<sessVars, lockVars, discVars, collectVars>>
    /\ UNCHANGED <<daemon, drv, returned, tickerC, ctxDone, got>>

\* main, lines 505-509 and 529-553: log.Fatal on an empty secret, else the
\* poll goroutine and the server are started.
MainStart ==
    /\ web.pc = "boot"
    /\ web' = [web EXCEPT !.pc = IF web.secret = <<>> THEN "exited"
                                                      ELSE "serving"]
    /\ UNCHANGED <<cache, cycle>>
    /\ WebFrame

\* pollLoop: cache.Set of the response of one more cycle.
WebPublish ==
    /\ web.pc = "serving"
    /\ cycle < MaxCycles
    /\ cycle' = cycle + 1
    /\ cache' = EmptyResponse(<<"h">>, MaxTime, cycle + 1)
    /\ UNCHANGED web
    /\ WebFrame

\* One request served.
WebServe ==
    /\ web.pc = "serving"
    /\ \E path \in PathValues, header \in HeaderValues :
          web' = [web EXCEPT
                    !.req = [path |-> path, header |-> header],
                    !.resp = ServeMux(web.secret, path, header, CacheGet)]
    /\ UNCHANGED <<cache, cycle>>
    /\ WebFrame

InitWeb ==
    /\ SessionIdle
    /\ LockIdle
    /\ DockerIdle
    /\ CycleIdle
    /\ conn = ConnIdle
    /\ agg = AggIdle
    /\ rate = RateIdle
    /\ prom = PromIdle
    /\ cmfile = FileIdle
    /\ \E secret \in SecretValues :
          web = [pc |-> "boot", secret |-> secret, req |-> Nil, resp |-> Nil]

NextWeb == MainStart \/ WebPublish \/ WebServe

SpecWeb == InitWeb /\ [][NextWeb]_vars

(***************************************************************************)
(* Claims about the HTTP server, checked under SpecWeb.                    *)
(***************************************************************************)
Authenticated(req) == req.header.present /\ req.header.value = web.secret

ServedRight ==
    web'.req # web.req \/ web'.resp # web.resp =>
        LET req == web'.req
            resp == web'.resp
        IN  /\ req.path = "/status" /\ ~Authenticated(req) =>
                 resp.code = 401 /\ resp.snapshot = Nil
            /\ req.path = "/status"
                  /\ (~req.header.present \/ req.header.value = <<>>) =>
                 resp.code = 401
            /\ req.path = "/status" /\ Authenticated(req) =>
                 IF cache = Nil THEN resp.code = 503 /\ resp.snapshot = Nil
                                ELSE resp.code = 200 /\ resp.snapshot = cache
            /\ req.path = "/health" => resp.code = 200 /\ resp.text = "ok"
            /\ resp.snapshot # Nil =>
                 req.path = "/status" /\ Authenticated(req)

\* C23: a request to /status gets the snapshot only when its X-Conduit-Auth
\* header equals the secret; every other request to /status, one without
\* the header included, gets 401 and nothing of the snapshot; the server
\* never runs with an empty secret, so an absent or empty header never
\* passes; a request that passes gets 503 while no snapshot is published;
\* /health answers 200 whatever the header.
C23_StatusNeedsSecret ==
    /\ [][ServedRight]_vars
    /\ [](web.pc = "serving" => web.secret # <<>>)

\* With a snapshot published, a request without the header was refused.
C23_Witness ==
    /\ web.pc = "serving"
    /\ cache # Nil
    /\ web.req # Nil
    /\ web.req.path = "/status"
    /\ ~web.req.header.present
    /\ web.resp.code = 401

(***************************************************************************)
(* The status of a target, checked under SpecPoll.                         *)
(***************************************************************************)
StatusValues == {"running", "down", "unhealthy"}

\* What the response of a cycle says of target i, against its runtime state
\* and the calls its worker made.
TargetStatusRight(info, ctr, c) ==
    /\ info.Status \in StatusValues
    /\ ctr.State # "running" =>
         /\ info.Status = "down"
         /\ info.CPUPercent = 0 /\ info.MemoryMB = 0
         /\ info.Uptime = <<0, "s">>
         /\ c = NoCalls
    /\ ctr.State = "running" /\ c.stats = "err" =>
         /\ info.Status = "unhealthy"
         /\ c.ip = "none" /\ c.metrics = "none"
    /\ c.metrics # "none" => info.Status = "running"
    /\ info.AppMetrics # Nil => info.Status = "running"

\* C24: every target of every published snapshot has a status among
\* running, down and unhealthy; a target whose runtime state is not
\* "running" is down with CPU and memory 0 and uptime "0s", and no stats,
\* inspect or metrics call was made for it; a running target whose stats
\* call or decoding failed is unhealthy and no metrics fetch was made for
\* it; only a target with status running carries app metrics.
C24_TargetStatus ==
    /\ drv = "set" /\ ~returned.failed =>
         \A i \in DOMAIN containers :
            TargetStatusRight(returned.Containers[i], containers[i], calls[i])
    /\ cache # Nil =>
         \A i \in DOMAIN cache.Containers :
            /\ cache.Containers[i].Status \in StatusValues
            /\ cache.Containers[i].AppMetrics # Nil =>
                 cache.Containers[i].Status = "running"

\* A published snapshot holds an unhealthy target and a down one.
C24_Witness ==
    /\ cache # Nil
    /\ \E i, j \in DOMAIN cache.Containers :
         /\ cache.Containers[i].Status = "unhealthy"
         /\ cache.Containers[i].AppMetrics = Nil
         /\ cache.Containers[j].Status = "down"
         /\ cache.Containers[j].Uptime = <<0, "s">>

(***************************************************************************)
(* The slots of the results array, checked under SpecCollect.              *)
(***************************************************************************)
\* collectAll is between the allocation of results and its return.
InCycle == drv \in {"spawn", "wait"}

\* A step inside a cycle that changes results is worker i at line 426
\* writing slot i, which nobody wrote before, and no other slot.
SlotWrittenByOwner ==
    InCycle /\ drv' = drv /\ results' # results =>
        \E i \in DOMAIN results :
            /\ wpc[i] = "store" /\ wpc'[i] = "release"
            /\ results[i] = ZeroInfo
            /\ results'[i] = winfo[i]
            /\ \A j \in DOMAIN results : j # i => results'[j] = results[j]

\* A worker past line 426 has its slot written, a worker before it has not.
SlotsFollowWorkers ==
    InCycle =>
        /\ Len(results) = Len(containers)
        /\ \A i \in DOMAIN results :
             (results[i] # ZeroInfo) <=> (wpc[i] \in {"release", "wgdone", "exit"})

\* C25: in a cycle the results array has one slot per discovered target;
\* worker i writes slot i only and once, so no two workers write one slot;
\* when the snapshot is built slot i holds the result of the target at
\* position i of the discovery, and total_containers is the length of the
\* list.
C25_OneSlotPerTarget ==
    /\ [][SlotWrittenByOwner]_vars
    /\ [](SlotsFollowWorkers)
    /\ [](drv = "set" /\ ~returned.failed =>
            /\ returned.TotalContainers = Len(returned.Containers)
            /\ Len(returned.Containers) = Len(containers)
            /\ \A i \in DOMAIN containers :
                 /\ returned.Containers[i].ID = ShortID(containers[i].ID)
                 /\ results[i] = returned.Containers[i]
                 /\ results[i] = winfo[i])

\* A cycle over two targets, discovered in descending order of their IDs and
\* of different fates, has built its snapshot.
C25_Witness ==
    /\ drv = "set"
    /\ ~returned.failed
    /\ returned.TotalContainers = 2
    /\ containers[1].ID = ContainerID(1)
    /\ containers[2].ID = ContainerID(0)
    /\ returned.Containers[1].ID = ShortID(ContainerID(1))
    /\ returned.Containers[1].Status = "down"
    /\ returned.Containers[2].Status = "running"

(***************************************************************************)
(* Ticks and cycles, checked under SpecPoll.                               *)
(***************************************************************************)
\* pollLoop is inside collectAll or about to put its response in the cache.
CycleRunning == drv \in {"collect", "spawn", "wait", "set"}

TickHeld == tickerC = "full" /\ CycleRunning => tickerC' = "full"

\* A cycle after the first is started by pollLoop taking a tick out of the
\* channel at its select, with the response of the previous cycle cached.
CycleStartedByTick ==
    cycle' # cycle =>
        /\ cycle' = cycle + 1
        /\ drv = "select" /\ drv' = "collect"
        /\ tickerC = "full" /\ tickerC' = "empty"
        /\ cache # Nil
        /\ cache.cycle = cycle

CallsAbortedAfterCancel ==
    ctxDone =>
        \A i \in DOMAIN calls :
            i \in DOMAIN calls' =>
                /\ calls'[i].stats # calls[i].stats =>
                      calls'[i].stats \in {"err", "none"}
                /\ calls'[i].ip # calls[i].ip => calls'[i].ip = "err"
                /\ calls'[i].metrics # calls[i].metrics =>
                      calls'[i].metrics = "err"

\* C27: once the context is cancelled, every network call of the running
\* cycle that is in flight (stats, inspect, metrics fetch) is aborted, so it
\* returns an error and not an answer, and no further cycle is started.
C27_CancelAbortsCallsAndCycles ==
    [][CallsAbortedAfterCancel /\ (ctxDone => cycle' = cycle)]_vars

(***************************************************************************)
(* SpecFile: safeReadLines and readPeakConnections on the bytes of the     *)
(* manager's peak_connections file, and the override of the session        *)
(* tracker with what was read.  A file is a sequence of symbols: "\n" and  *)
(* " " are those bytes, "1" and "2" are digits, "x" is any other byte, and *)
(* RFC3339Stamp is a whole timestamp in that layout.                       *)
(***************************************************************************)
MaxBytes == 4    \* symbols in a file

RFC3339Stamp == "1970-01-01T00:00:02Z"

FileAlphabet == {"\n", " ", "1", "2", "x"}

\* What os.ReadFile may give: an error (no file, no permission) or the bytes.
FileValues ==
    {[err |-> TRUE, content |-> <<>>]} \cup
    {[err |-> FALSE, content |-> c] : c \in SeqsUpTo(FileAlphabet, MaxBytes)} \cup
    {[err |-> FALSE, content |-> <<RFC3339Stamp, "\n", " ", "2", "\n">>],
     [err |-> FALSE, content |-> <<RFC3339Stamp, "\n", "2">>]}

\* strings.Split(s, "\n")
RECURSIVE Split(_)
Split(str) ==
    LET nl == IndexByte(str, "\n") IN
    IF nl = 0 THEN <<str>>
    ELSE <<SubSeq(str, 1, nl - 1)>> \o Split(SubSeq(str, nl + 1, Len(str)))

\* The file split at its newlines, nothing taken away.
safeReadLinesKeepLast(file) ==
    IF file.err \/ Len(file.content) = 0 THEN <<>> ELSE Split(file.content)

\* safeReadLines, lines 212-238.
safeReadLines(file) ==
    IF file.err THEN <<>>
    ELSE IF Len(file.content) = 0 THEN <<>>
    ELSE LET endsWithNewline == file.content[Len(file.content)] = "\n"
             split == Split(file.content)
             lines == IF Len(split) > 0 /\ split[Len(split)] = <<>>
                      THEN SubSeq(split, 1, Len(split) - 1) ELSE split
         IN  IF ~endsWithNewline /\ Len(lines) > 0
             THEN SubSeq(lines, 1, Len(lines) - 1) ELSE lines

\* strconv.ParseInt(s, 10, 64) of a string of the file's symbols.
RECURSIVE DecimalValue(_)
DecimalValue(str) ==
    IF str = <<>> THEN 0
    ELSE 10 * DecimalValue(SubSeq(str, 1, Len(str) - 1))
         + (IF str[Len(str)] = "1" THEN 1 ELSE 2)

ParseInt(str) ==
    IF str # <<>> /\ \A i \in 1 .. Len(str) : str[i] \in {"1", "2"}
    THEN [err |-> FALSE, val |-> DecimalValue(str)]
    ELSE [err |-> TRUE, val |-> 0]

\* time.Parse(time.RFC3339, s), as Unix seconds; the zero time on an error.
ParseRFC3339(str) ==
    IF str = <<RFC3339Stamp>> THEN [err |-> FALSE, val |-> 2]
    ELSE [err |-> TRUE, val |-> ZeroTime]

\* readPeakConnections, lines 342-362, on the lines safeReadLines gave.
readPeakConnections(lines) ==
    IF Len(lines) < 2 THEN [start |-> ZeroTime, peak |-> 0]
    ELSE LET t == ParseRFC3339(TrimSpace(lines[1]))
             ts == ParseInt(TrimSpace(lines[1]))
             startTime == IF ~t.err THEN t.val
                          ELSE IF ~ts.err THEN ts.val ELSE ZeroTime
             peak == ParseInt(TrimSpace(lines[2]))
         IN  IF peak.err THEN [start |-> startTime, peak |-> 0]
             ELSE [start |-> startTime, peak |-> peak.val]

\* Session trackers the override may meet.
TrackerValues ==
    {NewSessionTracker(MaxTime),
     [startTime |-> 1, peakConns |-> 1, sampleCount |-> 2, connSum |-> 1,
      lastUpload |-> 100, lastDownload |-> 50]}

FileFrame ==
    /\ UNCHANGED <<conn, agg, rate, prom, web>>
    /\ UNCHANGED <<lastCall, seqPos, lockVars, discVars, cycleVars>>

\* readPeakConnections, line 343: safeReadLines(path).
ReadLines ==
    /\ cmfile.pc = "read"
    /\ cmfile' = [cmfile EXCEPT !.pc = "parse",
                                !.lines = safeReadLines(cmfile.file)]
    /\ UNCHANGED tracker
    /\ FileFrame

\* readPeakConnections, lines 344-361.
ReadPeak ==
    /\ cmfile.pc = "parse"
    /\ cmfile' = [cmfile EXCEPT !.pc = "override",
                                !.read = readPeakConnections(cmfile.lines)]
    /\ UNCHANGED tracker
    /\ FileFrame

\* The cycle hands what ReadCMData read to SessionTracker.UpdateFromCM.
OverrideFromCM ==
    /\ cmfile.pc = "override"
    /\ tracker' = UpdateFromCMResult(tracker, cmfile.read.peak, cmfile.read.start)
    /\ cmfile' = [cmfile EXCEPT !.pc = "done", !.before = tracker]
    /\ FileFrame

InitFile ==
    /\ LockIdle
    /\ DockerIdle
    /\ CycleIdle
    /\ conn = ConnIdle
    /\ agg = AggIdle
    /\ rate = RateIdle
    /\ prom = PromIdle
    /\ web = WebIdle
    /\ tracker \in TrackerValues
    /\ lastCall = NoCall
    /\ seqPos = 0
    /\ committed = NewSessionTracker(MaxTime)
    /\ \E f \in FileValues :
          cmfile = [pc |-> "read", file |-> f, lines |-> <<>>,
                    read |-> [start |-> ZeroTime, peak |-> 0],
                    before |-> NewSessionTracker(MaxTime)]

NextFile == ReadLines \/ ReadPeak \/ OverrideFromCM

SpecFile == InitFile /\ [][NextFile]_vars

(***************************************************************************)
(* Claims about the state files, checked under SpecFile.                   *)
(***************************************************************************)
\* The positions of the newlines of a file.
Newlines(content) == {i \in 1 .. Len(content) : content[i] = "\n"}

\* The lines of a file that end with a newline, in their order.
RECURSIVE TerminatedLines(_)
TerminatedLines(content) ==
    IF Newlines(content) = {} THEN <<>>
    ELSE LET last == CHOOSE i \in Newlines(content) :
                        \A j \in Newlines(content) : j <= i
             before == {j \in Newlines(content) : j < last}
             prev == IF before = {} THEN 0
                     ELSE CHOOSE i \in before : \A j \in before : j <= i
         IN  TerminatedLines(SubSeq(content, 1, prev))
             \o <<SubSeq(content, prev + 1, last - 1)>>

\* The file has a first line and a second one that no newline ends yet.
SecondLinePartial(file) ==
    /\ ~file.err
    /\ Cardinality(Newlines(file.content)) = 1

LinesRead == cmfile.pc \in {"parse", "override", "done"}

\* C28: safeReadLines returns exactly the lines of the file that a newline
\* ends, so the last line of a file that does not end with a newline is
\* dropped, and a missing, unreadable or empty file gives no lines; a
\* peak-connections file whose second line is not ended by a newline reads
\* as (zero start time, peak 0), and the override made with that leaves the
\* session tracker as it was.
C28_PartialLineDiscarded ==
    /\ LinesRead =>
          /\ (cmfile.file.err \/ cmfile.file.content = <<>>)
                => cmfile.lines = <<>>
          /\ ~cmfile.file.err
                => cmfile.lines = TerminatedLines(cmfile.file.content)
    /\ (cmfile.pc \in {"override", "done"} /\ SecondLinePartial(cmfile.file))
          => cmfile.read = [start |-> ZeroTime, peak |-> 0]
    /\ (cmfile.pc = "done" /\ SecondLinePartial(cmfile.file))
          => tracker = cmfile.before

\* A file with a whole first line and a started second line went through
\* the override, met a tracker that a complete file would have changed, and
\* left it alone.
C28_Witness ==
    /\ cmfile.pc = "done"
    /\ cmfile.file.content = <<RFC3339Stamp, "\n", "2">>
    /\ cmfile.before.peakConns = 1
    /\ tracker = cmfile.before
    /\ UpdateFromCMResult(cmfile.before, 2, 2) # cmfile.before

=============================================================================
